---- MODULE Spec2Model ----
(***************************************************************************)
(* State-machine model of the coordination layer of the USearch           *)
(* distributed examples (docs/course/examples):                           *)
(*   - FailureDetector    (advanced_distributed.cpp, lines 152-247)       *)
(*   - CheckpointManager  (advanced_distributed.cpp, lines 253-390)       *)
(*   - ShardNode          (distributed_examples.cpp, lines 50-108)        *)
(*   - HashSharding       (distributed_examples.cpp, lines 125-145)       *)
(*   - RoundRobinSharding (distributed_examples.cpp, lines 148-169)       *)
(*   - RangeSharding      (distributed_examples.cpp, lines 172-211)       *)
(*   - DistributedIndex   (distributed_examples.cpp, lines 217-389)       *)
(*   - AdaptiveLoadBalancer (advanced_distributed.cpp, lines 396-478)     *)
(* Time is an integer clock; one unit is the granularity at which         *)
(* steady_clock readings are compared with heartbeat_timeout_.            *)
(***************************************************************************)
EXTENDS Integers, Sequences, FiniteSets, TLC

\* ---------------------------------------------------------------- bounds
\* Largest clock reading explored.
MaxTime == 3
\* Largest heartbeat_timeout_ a detector is constructed with.
MaxTimeout == 1
\* The observation counters missed/fired saturate at this value.
MaxMissed == 4
\* Number of node addresses.
NumAddresses == 2
\* Largest max_checkpoints_ a manager is constructed with.
MaxRetain == 2
\* create_checkpoint is entered only while fewer checkpoints than this were created.
MaxCreates == 3
\* Number of vector keys.
NumKeys == 1

\* Number of shards of a DistributedIndex.
NumShards == 2
\* Number of vector keys written through a DistributedIndex.
NumBatchKeys == 3
\* DistributedIndex::search is entered only while fewer calls than this were made.
MaxQueries == 2

\* Number of keys the shard searches report.
NumResultKeys == 2
\* Largest distance a shard search reports.
MaxDistance == 1
\* Largest number of entries collected from the shards by one search.
MaxResults == 3
\* Largest k a search is called with.
MaxK == 2

\* Number of client threads of an AdaptiveLoadBalancer.
NumClients == 2
\* record_request_start is entered only while fewer calls than this were made.
MaxRequests == 2
\* Largest latency_ms, in milliseconds, handed to record_request_end.
MaxLatency == 1

\* Largest count DistributedIndex::add_batch is called with.
MaxCount == 2
\* Largest total_keys a RangeSharding is constructed with.
MaxTotalKeys == 3
\* strategy->shard_id is called directly only while fewer calls than this were made.
MaxCalls == 4

Key == 1..NumKeys

\* Indices into shards_.
Shard == 0..(NumShards - 1)

\* The keys handed to DistributedIndex::add and add_batch.
BatchKey == 0..(NumBatchKeys - 1)

\* result_t as the merge sees it: the fields key and distance.
Entry == [key : 1..NumResultKeys, distance : 0..MaxDistance]

Address == 1..NumAddresses

\* The keys handed to the shard_id of a strategy: some lie in [0, total_keys)
\* and one is total_keys or above, for every total_keys.
RouteKey == 0..MaxTotalKeys

\* The threads that call an AdaptiveLoadBalancer.
Client == 1..NumClients

\* The values of latency_ms: whole milliseconds.
Latency == 0..MaxLatency

\* ------------------------------------------------------ program constants
\* advanced_distributed.cpp:237  "status.failure_count >= 3"
FailureThreshold == 3
\* advanced_distributed.cpp:429  "latency / 10.0"
LatencyWeight == 10
\* advanced_distributed.cpp:450  "old_avg * 0.9", in tenths
EmaKeepTenths == 9
\* advanced_distributed.cpp:450  "latency_ms * 0.1", in tenths
EmaNewTenths == 1

VARIABLES
    \* ---- FailureDetector fields
    nodes_,             \* std::map<address, NodeStatus>: a function on the registered addresses
    heartbeat_timeout_, \* constructor argument
    fd_running_,        \* std::atomic<bool> running_
    fd_joinable,        \* detector_thread_.joinable()
    on_failure_,        \* TRUE iff the std::function holds a callback
    \* ---- FailureDetector control state
    now,                \* steady_clock
    fd_pc,              \* position of the detector thread in detect_loop
    fd_stop_pc,         \* position of the owner: "none", "join" (inside stop()), "destroyed"
    \* ---- FailureDetector observations (history, written only)
    fd_call,            \* the API call that returned last, <<"none">> after any other step
    missed,             \* per address: ticks that found it timed out, with a callback
                        \* installed, since its last heartbeat / registration
    fired               \* per address: on_failure_ invocations since its last heartbeat / registration

VARIABLES
    \* ---- ShardNode
    index_,             \* the keys held by the engine of the ShardNode shard_ points to
    shard_,             \* ShardNode* shard_: "shard", or "new_shard" once rebound
    \* ---- persistence medium
    files,              \* checkpoint id |-> content of checkpoint_<id>.usearch, for the files that exist
    \* ---- CheckpointManager fields
    max_checkpoints_,   \* constructor argument
    checkpoints_,       \* std::vector<Checkpoint>, records [id, num_vectors]
    cp_running_,        \* std::atomic<bool> running_
    cp_joinable,        \* checkpoint_thread_.joinable()
    cp_mutex_,          \* "free", or the caller holding mutex_: "manual" or "loop"
    \* ---- CheckpointManager control state
    cp_pc,              \* position of the checkpoint thread in checkpoint_loop
    cp_stop_pc,         \* position of the caller of stop()
    cp_stage,           \* position inside create_checkpoint of the holder of mutex_
    cp_id,              \* the local variable id of that call
    \* ---- CheckpointManager observations (history, written only)
    created,            \* every Checkpoint returned by create_checkpoint, in order
    cp_result,          \* outcome of the call that returned last
    cp_before,          \* checkpoints_ and files as found by the create_checkpoint call
                        \* that is running or has thrown last
    cp_saved            \* the engine state the last successful shard_->save wrote

VARIABLES
    \* ---- DistributedIndex, write path
    shards_,            \* per shard: the keys held by the engine of that ShardNode
    ab_keys,            \* add_batch: the argument keys[0 .. count - 1]
    groups,             \* add_batch: per shard the keys of its group, in push_back order
    ab_pc,              \* position of the add_batch caller: "idle" or "get"
    ab_task,            \* per shard the std::async task of add_batch: <<"none">>,
                        \* <<"running">> or <<"done", engine accepted, returned flag>>
    ab_next,            \* the shard whose future the caller is at in the get() loop
    ab_result,          \* outcome of the add / add_batch call that returned last:
                        \* <<"add", returned flag, engine accepted>> or <<"add_batch",
                        \* returned flag, tasks, keys, groups>>
    \* ---- DistributedIndex, read path
    query_count_,       \* per shard: std::atomic<std::size_t> query_count_
    total_queries_,     \* std::atomic<std::size_t> total_queries_
    target_shards,      \* search: the local vector target_shards
    se_pc,              \* position of the search caller: "idle", "launch", "iterate",
                        \* "collect" or "unwind"
    se_i,               \* search: the iteration of the range-for the caller is in
    se_task,            \* per iteration the std::async task of search: <<"none">>,
                        \* <<"launched">> or <<"done", shard searched, threw>>
    se_get,             \* search: the future the caller is at in the get() loop
    se_collected,       \* search: the shards whose results were appended to all_results
    qc_before,          \* observation: query_count_ as the running search call found it
    se_result           \* outcome of the search call that has left last

batchVars == <<shards_, ab_keys, groups, ab_pc, ab_task, ab_next, ab_result>>

searchVars == <<query_count_, total_queries_, target_shards, se_pc, se_i, se_task, se_get,
                se_collected, qc_before, se_result>>

VARIABLES
    \* ---- DistributedIndex::search, the merge of the collected results
    all_results,        \* the local vector all_results
    mg_k,               \* the parameter k
    mg_pc,              \* position in lines 323-347: "none", "sort", "unique",
                        \* "partial_sort", "resize" or "returned"
    \* ---- observations (history, written only)
    mg_collected,       \* all_results as collected from the futures
    mg_unique,          \* all_results as the erase of line 326 left it
    mg_overrun          \* TRUE iff partial_sort was handed a middle beyond end()

mergeVars == <<all_results, mg_k, mg_pc, mg_collected, mg_unique, mg_overrun>>

VARIABLE
    ext                 \* the objects of the sections below, one record each,
                        \* or <<"absent">> for an object that is not constructed:
                        \* lb an AdaptiveLoadBalancer with its clients, rt a
                        \* ShardingStrategy instance, pa the save_all / load_all
                        \* call of a DistributedIndex with the files, nd the
                        \* ShardNodes called directly, se the arguments of the
                        \* running DistributedIndex::search

extVars == <<ext>>

\* ---- AdaptiveLoadBalancer: the fields of ShardStats, per shard
\* std::atomic<std::uint64_t> active_requests
active_requests == ext.lb.active_requests
\* std::atomic<std::uint64_t> total_requests
total_requests == ext.lb.total_requests
\* std::atomic<double> avg_latency_ms, as a whole number of 1/Scale ms
avg_latency_ms == ext.lb.avg_latency_ms
\* std::atomic<std::size_t> error_count
error_count == ext.lb.error_count
\* std::mutex mutex_: 0 when free, else the client holding it
lb_mutex_ == ext.lb.lb_mutex_
\* ---- AdaptiveLoadBalancer: the client threads
\* per client its position: "idle", "scan" (in select_shard), "start_total",
\* "started" (between record_request_start and record_request_end),
\* "end_load", "end_store" or "end_error"
lb_pc == ext.lb.lb_pc
\* per client the shard_id its record_request_ calls are made with
lb_shard == ext.lb.lb_shard
\* per client the argument latency_ms of its record_request_end
lb_latency == ext.lb.lb_latency
\* per client the argument success of its record_request_end
lb_success == ext.lb.lb_success
\* per client the local old_avg of its record_request_end
lb_old_avg == ext.lb.lb_old_avg
\* ---- select_shard: the locals of the call that holds mutex_
\* the shard the range-for is at (NumShards: past the end)
sc_next == ext.lb.sc_next
\* "active" or "latency": the load the iteration is at
sc_pc == ext.lb.sc_pc
\* the local active
sc_active == ext.lb.sc_active
\* the local best_shard
best_shard == ext.lb.best_shard
\* the local best_score: <<"max">> or <<"score", value>>
best_score == ext.lb.best_score
\* ---- AdaptiveLoadBalancer: observations (history, written only)
\* per shard visited the pair <<active, latency>> the scan loaded
sc_seen == ext.lb.sc_seen
\* <<"select_shard", returned shard, sc_seen>> right after select_shard
\* returned, else <<"none">>
lb_result == ext.lb.lb_result
\* per shard the record_request_start calls made
lb_starts == ext.lb.lb_starts
\* per shard the record_request_end calls made
lb_ends == ext.lb.lb_ends
\* per shard the record_request_end calls made with success = false
lb_failed == ext.lb.lb_failed
\* per shard the latencies handed to record_request_end, in call order
lb_observed == ext.lb.lb_observed

\* ---- ProductionCluster: observations (history, written only)
\* per thread the method of the cluster whose shard search it ran last
cl_call == ext.cl.cl_call

\* ---- the locks of a CheckpointManager and of its shard
\* the thread that holds CheckpointManager::mutex_, or "free"
lk_mutex_ == ext.lk.lk_mutex_
\* the thread that holds ShardNode::mutex_ of the shard, or <<"free">>
lk_shard_mutex_ == ext.lk.lk_shard_mutex_
\* per caller of the manager the statement it is at, and the method it called
lk_pc == ext.lk.lk_pc
lk_op == ext.lk.lk_op
\* per client of the shard the statement it is at, and the method it called
lk_client_pc == ext.lk.lk_client_pc
lk_client_op == ext.lk.lk_client_op

\* ---- a ShardingStrategy instance
\* its class: "hash", "round_robin" or "range"
strategy_ == ext.rt.strategy_
\* the constructor argument num_shards
num_shards_ == ext.rt.num_shards_
\* RangeSharding: the constructor argument total_keys
total_keys == ext.rt.total_keys
\* RangeSharding::ranges_
ranges_ == ext.rt.ranges_
\* RoundRobinSharding::counter_
counter_ == ext.rt.counter_
\* ---- ShardingStrategy: observations (history, written only)
\* the call that returned last: <<"shard_id", key, index>>,
\* <<"target_shards", n_probe, list>> or <<"none">>
rt_result == ext.rt.rt_result
\* the shard_id calls made, in order
rt_history == ext.rt.rt_history

\* ---- DistributedIndex::save_all / load_all
\* per shard the file at base_path + "_shard_" + id + ".usearch"
disk == ext.pa.disk
\* position of the caller: "idle", "save_all" or "load_all"
pa_pc == ext.pa.pa_pc
\* the shard the range-for comes to next
pa_next == ext.pa.pa_next
\* TRUE iff the save / load of the shard before returned false
pa_failed == ext.pa.pa_failed
\* ---- save_all / load_all: observations (history, written only)
\* the save / load calls of the last save_all / load_all, in order:
\* <<shard, returned flag, keys written / loaded>>
pa_attempted == ext.pa.pa_attempted
\* <<"save_all" / "load_all", returned flag, pa_attempted>> once the call has
\* returned, <<"none">> while it runs
pa_result == ext.pa.pa_result

\* ---- ShardNode, called directly by client threads
\* per shard std::mutex mutex_: 0 when free, else the holder
nd_mutex_ == ext.nd.nd_mutex_
\* per client its position: "idle", "lock" (at the lock_guard) or "engine"
\* (in the engine call)
nd_pc == ext.nd.nd_pc
\* per client the operation it is in, else "none"
nd_op == ext.nd.nd_op
\* per client the shard it called
nd_shard == ext.nd.nd_shard
\* per client the keys its add or add_batch was called with
nd_keys == ext.nd.nd_keys
\* per client how many of these keys the engine has inserted
nd_done == ext.nd.nd_done
\* per shard the keys of the add and add_batch calls that have returned after
\* the engine took them (history, written only)
nd_written == ext.nd.nd_written

\* ---- DistributedIndex::search: observations (history, written only)
\* the argument n_probe of the call made last
se_n_probe == ext.se.se_n_probe

diVars == <<batchVars, searchVars, mergeVars, extVars>>

fdVars == <<nodes_, heartbeat_timeout_, fd_running_, fd_joinable, on_failure_,
            now, fd_pc, fd_stop_pc, fd_call, missed, fired>>

cpVars == <<index_, files, max_checkpoints_, checkpoints_, cp_running_, cp_joinable,
            cp_mutex_, cp_pc, cp_stop_pc, cp_stage, cp_id, created, cp_result, cp_before,
            shard_, cp_saved>>

vars == <<fdVars, cpVars, diVars>>

Min(a, b) == IF a < b THEN a ELSE b

\* ===================================================== FailureDetector ==

\* NodeStatus as written by add_node.
FreshStatus(t) == [last_heartbeat |-> t, is_alive |-> TRUE, failure_count |-> 0]

\* elapsed > heartbeat_timeout_
TimedOut(st, t) == t - st.last_heartbeat > heartbeat_timeout_

\* Suspects without the is_alive test: every tick past the timeout counts.
SuspectsIgnoringAlive(st, t) == TimedOut(st, t)

\* The two nested conditions that let a tick touch a node.
Suspects(st, t) == TimedOut(st, t) /\ st.is_alive

\* TickStatus without the assignment is_alive = false.
TickStatusKeepsAlive(st, t) ==
    IF Suspects(st, t)
    THEN [st EXCEPT !.failure_count = @ + 1]
    ELSE st

\* The node as the tick leaves it.
TickStatus(st, t) ==
    IF Suspects(st, t)
    THEN [st EXCEPT !.is_alive = FALSE, !.failure_count = @ + 1]
    ELSE st

\* ConfirmsFailure with the threshold at the first miss.
ConfirmsFailureAtFirstMiss(st) == st.failure_count >= 1 /\ on_failure_

\* Condition of the inner if, evaluated on the already incremented count.
ConfirmsFailure(st) == st.failure_count >= FailureThreshold /\ on_failure_

\* TRUE iff the tick invokes on_failure_(address) for this node.
InvokesCallback(st, t) == Suspects(st, t) /\ ConfirmsFailure(TickStatus(st, t))

\* The detector object has not been destroyed.
FdExists == fd_stop_pc # "destroyed"

FDInit ==
    /\ nodes_ = << >>
    /\ heartbeat_timeout_ \in 0..MaxTimeout
    /\ fd_running_ = FALSE
    /\ fd_joinable = FALSE
    /\ on_failure_ = FALSE
    /\ now = 0
    /\ fd_pc = "none"
    /\ fd_stop_pc = "none"
    /\ fd_call = <<"none">>
    /\ missed = [a \in Address |-> 0]
    /\ fired = [a \in Address |-> 0]

\* The steady clock advances.
ClockTick ==
    /\ FdExists
    /\ now < MaxTime
    /\ now' = now + 1
    /\ fd_call' = <<"none">>
    /\ UNCHANGED <<nodes_, heartbeat_timeout_, fd_running_, fd_joinable, on_failure_,
                   fd_pc, fd_stop_pc, missed, fired>>
    /\ UNCHANGED <<cpVars, diVars>>

\* The status an address had before a call, <<>> when it was not registered.
Before(a) == IF a \in DOMAIN nodes_ THEN <<nodes_[a]>> ELSE << >>

add_node(a) ==
    /\ FdExists
    /\ nodes_' = (a :> FreshStatus(now)) @@ nodes_
    /\ missed' = [missed EXCEPT ![a] = 0]
    /\ fired' = [fired EXCEPT ![a] = 0]
    /\ fd_call' = <<"add_node", a, Before(a)>>
    /\ UNCHANGED <<heartbeat_timeout_, fd_running_, fd_joinable, on_failure_,
                   now, fd_pc, fd_stop_pc>>
    /\ UNCHANGED <<cpVars, diVars>>

\* HeartbeatStatus without the reset of failure_count.
HeartbeatStatusKeepsCount(st, t) ==
    [st EXCEPT !.last_heartbeat = t, !.is_alive = TRUE]

\* The three assignments heartbeat makes to the node it found.
HeartbeatStatus(st, t) ==
    [st EXCEPT !.last_heartbeat = t, !.is_alive = TRUE, !.failure_count = 0]

\* HeartbeatNodes through operator[], which inserts a missing address.
HeartbeatNodesInserting(ns, a, t) ==
    IF a \in DOMAIN ns THEN [ns EXCEPT ![a] = HeartbeatStatus(ns[a], t)]
    ELSE (a :> FreshStatus(t)) @@ ns

\* nodes_ after heartbeat(a): find() never inserts.
HeartbeatNodes(ns, a, t) ==
    IF a \in DOMAIN ns THEN [ns EXCEPT ![a] = HeartbeatStatus(ns[a], t)] ELSE ns

heartbeat(a) ==
    /\ FdExists
    /\ nodes_' = HeartbeatNodes(nodes_, a, now)
    /\ IF a \in DOMAIN nodes_
       THEN /\ missed' = [missed EXCEPT ![a] = 0]
            /\ fired' = [fired EXCEPT ![a] = 0]
       ELSE UNCHANGED <<missed, fired>>
    /\ fd_call' = <<"heartbeat", a, Before(a)>>
    /\ UNCHANGED <<heartbeat_timeout_, fd_running_, fd_joinable, on_failure_,
                   now, fd_pc, fd_stop_pc>>
    /\ UNCHANGED <<cpVars, diVars>>

\* set_failure_callback writes on_failure_ without taking mutex_; it is
\* modelled for the race-free use only, while no detector thread exists.
set_failure_callback ==
    /\ FdExists
    /\ ~fd_joinable
    /\ ~on_failure_
    /\ on_failure_' = TRUE
    /\ fd_call' = <<"none">>
    /\ UNCHANGED <<nodes_, heartbeat_timeout_, fd_running_, fd_joinable,
                   now, fd_pc, fd_stop_pc, missed, fired>>
    /\ UNCHANGED <<cpVars, diVars>>

\* start(): a second start() on a joinable std::thread terminates the program.
fd_start ==
    /\ FdExists
    /\ ~fd_joinable
    /\ fd_running_' = TRUE
    /\ fd_joinable' = TRUE
    /\ fd_pc' = "test"
    /\ fd_call' = <<"none">>
    /\ UNCHANGED <<nodes_, heartbeat_timeout_, on_failure_, now, fd_stop_pc, missed, fired>>
    /\ UNCHANGED <<cpVars, diVars>>

\* stop(), first half: clear the flag, then block in join() if joinable.
fd_stop_begin ==
    /\ fd_stop_pc = "none"
    /\ fd_running_' = FALSE
    /\ fd_stop_pc' = IF fd_joinable THEN "join" ELSE "none"
    /\ fd_call' = <<"none">>
    /\ UNCHANGED <<nodes_, heartbeat_timeout_, fd_joinable, on_failure_, now, fd_pc,
                   missed, fired>>
    /\ UNCHANGED <<cpVars, diVars>>

\* JoinReturns for a stop() that does not wait for the thread.
JoinReturnsAtOnce(pc) == TRUE

\* join() returns once the thread function has returned.
JoinReturns(pc) == pc = "done"

\* stop(), second half: join() returns and so does stop().
fd_stop_join ==
    /\ fd_stop_pc = "join"
    /\ JoinReturns(fd_pc)
    /\ fd_joinable' = FALSE
    /\ fd_stop_pc' = "none"
    /\ fd_call' = <<"none">>
    /\ UNCHANGED <<nodes_, heartbeat_timeout_, fd_running_, on_failure_, now, fd_pc,
                   missed, fired>>
    /\ UNCHANGED <<cpVars, diVars>>

\* detect_loop: evaluation of while (running_).
detect_loop_test ==
    /\ FdExists
    /\ fd_pc = "test"
    /\ fd_pc' = IF fd_running_ THEN "sleep" ELSE "done"
    /\ fd_call' = <<"none">>
    /\ UNCHANGED <<nodes_, heartbeat_timeout_, fd_running_, fd_joinable, on_failure_,
                   now, fd_stop_pc, missed, fired>>
    /\ UNCHANGED <<cpVars, diVars>>

\* detect_loop: the sleep ends, the thread takes mutex_ and scans every node.
detect_loop_tick ==
    /\ FdExists
    /\ fd_pc = "sleep"
    /\ fd_pc' = "test"
    /\ nodes_' = [a \in DOMAIN nodes_ |-> TickStatus(nodes_[a], now)]
    /\ missed' = [a \in Address |->
                    IF a \in DOMAIN nodes_ /\ TimedOut(nodes_[a], now) /\ on_failure_
                    THEN Min(missed[a] + 1, MaxMissed) ELSE missed[a]]
    /\ fired' = [a \in Address |->
                    IF a \in DOMAIN nodes_ /\ InvokesCallback(nodes_[a], now)
                    THEN Min(fired[a] + 1, MaxMissed) ELSE fired[a]]
    /\ fd_call' = <<"none">>
    /\ UNCHANGED <<heartbeat_timeout_, fd_running_, fd_joinable, on_failure_, now, fd_stop_pc>>
    /\ UNCHANGED <<cpVars, diVars>>

\* ~FailureDetector(), once its stop() has returned: the fields are gone.
\* The clock is read by the detector only and is dropped with it.
DestroyDetector ==
    /\ fd_stop_pc = "none"
    /\ ~fd_joinable
    /\ fd_stop_pc' = "destroyed"
    /\ nodes_' = << >>
    /\ heartbeat_timeout_' = 0
    /\ fd_running_' = FALSE
    /\ on_failure_' = FALSE
    /\ now' = 0
    /\ fd_call' = <<"none">>
    /\ missed' = [a \in Address |-> 0]
    /\ fired' = [a \in Address |-> 0]
    /\ UNCHANGED <<fd_joinable, fd_pc>>

fd_destructor ==
    /\ DestroyDetector
    /\ UNCHANGED <<cpVars, diVars>>

\* Every step of the detector and its callers while the object exists.
FDCalls ==
    \/ ClockTick
    \/ \E a \in Address : add_node(a)
    \/ \E a \in Address : heartbeat(a)
    \/ set_failure_callback
    \/ fd_start
    \/ fd_stop_begin
    \/ fd_stop_join
    \/ detect_loop_test
    \/ detect_loop_tick

FDNext ==
    \/ FDCalls
    \/ fd_destructor

\* =================================================== CheckpointManager ==

\* ShardNode::size()
ShardSize(ix) == Cardinality(ix)

\* Snapshot writing a loadable file with no vector in it.
SnapshotOfNothing(ix) == [intact |-> TRUE, keys |-> {}]

\* A complete snapshot of the engine state ix; a file a failed save left
\* behind is not loadable.
Snapshot(ix) == [intact |-> TRUE, keys |-> ix]
Partial == [intact |-> FALSE, keys |-> {}]

\* id = checkpoints_.empty() ? 1 : checkpoints_.back().id + 1
NextId(cps) == IF cps = << >> THEN 1 ELSE cps[Len(cps)].id + 1

\* ExceedsLimit off by one.
ExceedsLimitByTwo(cps, limit) == Len(cps) > limit + 1

\* while (checkpoints_.size() > max_checkpoints_)
ExceedsLimit(cps, limit) == Len(cps) > limit

\* EraseOldest erasing at the back instead.
EraseNewest(cps) == SubSeq(cps, 1, Len(cps) - 1)

\* checkpoints_.erase(checkpoints_.begin())
EraseOldest(cps) == Tail(cps)

\* cleanup_old(): the records that remain.
RECURSIVE cleanup_old(_, _)
cleanup_old(cps, limit) ==
    IF ExceedsLimit(cps, limit) THEN cleanup_old(EraseOldest(cps), limit) ELSE cps

\* cleanup_old(): the ids whose file std::filesystem::remove is called on, given
\* the records before and after.
RemovedIds(cps, kept) ==
    {cps[i].id : i \in {j \in 1..Len(cps) : \A m \in 1..Len(kept) : kept[m] # cps[j]}}

\* The files left once the paths of the given ids are removed.
RemoveFiles(fs, ids) == [i \in DOMAIN fs \ ids |-> fs[i]]

\* SaveFailed for a record appended before the save was checked.
SaveFailedButRecorded(cps, id) == Append(cps, [id |-> id, num_vectors |-> 0])

\* checkpoints_ when create_checkpoint leaves through the throw.
SaveFailed(cps, id) == cps

\* cp_before outside a call that is running or has thrown.
NoCall == [checkpoints |-> << >>, files |-> << >>]

CPInit ==
    /\ index_ = {}
    /\ files = << >>
    /\ max_checkpoints_ \in 0..MaxRetain
    /\ checkpoints_ = << >>
    /\ cp_running_ = FALSE
    /\ cp_joinable = FALSE
    /\ cp_mutex_ = "free"
    /\ cp_pc = "none"
    /\ cp_stop_pc = "none"
    /\ cp_stage = "none"
    /\ cp_id = 0
    /\ created = << >>
    /\ cp_result = <<"none">>
    /\ cp_before = NoCall
    /\ shard_ = "shard"
    /\ cp_saved = {}

\* ShardNode::add(key, vector) on the ShardNode named shard, from any client
\* thread.  Once shard_ is rebound that object is out of the manager's reach
\* and is no longer tracked; new_shard receives no add (example_03, 615-624).
shard_add(k) ==
    /\ shard_ = "shard"
    /\ index_' = index_ \cup {k}
    /\ UNCHANGED <<files, max_checkpoints_, checkpoints_, cp_running_, cp_joinable,
                   cp_mutex_, cp_pc, cp_stop_pc, cp_stage, cp_id, created, cp_result,
                   cp_before>>
    /\ UNCHANGED <<shard_, cp_saved>>
    /\ UNCHANGED <<fdVars, diVars>>

\* create_checkpoint(), lines 305-311: take mutex_ and allocate the id.
\* who = "loop" is the call made by checkpoint_loop, "manual" any other caller.
create_checkpoint_enter(who) ==
    /\ cp_mutex_ = "free"
    /\ who = "loop" => cp_pc = "create"
    /\ Len(created) < MaxCreates
    /\ cp_mutex_' = who
    /\ cp_stage' = "save"
    /\ cp_id' = NextId(checkpoints_)
    /\ cp_result' = <<"none">>
    /\ cp_before' = [checkpoints |-> checkpoints_, files |-> files]
    /\ UNCHANGED <<index_, files, max_checkpoints_, checkpoints_, cp_running_, cp_joinable,
                   cp_pc, cp_stop_pc, created>>
    /\ UNCHANGED <<shard_, cp_saved>>
    /\ UNCHANGED <<fdVars, diVars>>

\* create_checkpoint(), line 318 with a successful shard_->save(path).
create_checkpoint_save_ok ==
    /\ cp_stage = "save"
    /\ files' = (cp_id :> Snapshot(index_)) @@ files
    /\ cp_saved' = index_
    /\ cp_stage' = "size"
    /\ UNCHANGED <<index_, max_checkpoints_, checkpoints_, cp_running_, cp_joinable,
                   cp_mutex_, cp_pc, cp_stop_pc, cp_id, created, cp_result, cp_before>>
    /\ UNCHANGED shard_
    /\ UNCHANGED <<fdVars, diVars>>

\* checkpoint_loop with the catch clause missing: the thread ends.
LoopAfterUncaught == "done"

\* checkpoint_loop, lines 373-375: catch (std::exception const&) logs and falls
\* through to the while test.
LoopAfterCatch == "test"

\* create_checkpoint(), lines 318 and 335-337: save fails and the call throws.
\* The engine may or may not have left a file at the path.  In checkpoint_loop
\* the exception is caught and the loop goes back to its test.
create_checkpoint_save_fails ==
    /\ cp_stage = "save"
    /\ \E leaves_file \in BOOLEAN :
          files' = IF leaves_file THEN (cp_id :> Partial) @@ files ELSE files
    /\ checkpoints_' = SaveFailed(checkpoints_, cp_id)
    /\ cp_result' = <<"create", cp_mutex_, "error">>
    /\ cp_pc' = IF cp_mutex_ = "loop" THEN LoopAfterCatch ELSE cp_pc
    /\ cp_mutex_' = "free"
    /\ cp_stage' = "none"
    /\ cp_id' = 0
    /\ UNCHANGED <<index_, max_checkpoints_, cp_running_, cp_joinable, cp_stop_pc,
                   created, cp_before>>
    /\ UNCHANGED <<shard_, cp_saved>>
    /\ UNCHANGED <<fdVars, diVars>>

\* create_checkpoint(), lines 319-334: read shard_->size(), append the record,
\* cleanup_old(), return the record.
create_checkpoint_record ==
    /\ cp_stage = "size"
    /\ LET cp     == [id |-> cp_id, num_vectors |-> ShardSize(index_)]
           pushed == Append(checkpoints_, cp)
           kept   == cleanup_old(pushed, max_checkpoints_)
       IN  /\ checkpoints_' = kept
           /\ files' = RemoveFiles(files, RemovedIds(pushed, kept))
           /\ created' = Append(created, cp)
    /\ cp_result' = <<"create", cp_mutex_, "ok">>
    /\ cp_pc' = IF cp_mutex_ = "loop" THEN "test" ELSE cp_pc
    /\ cp_mutex_' = "free"
    /\ cp_stage' = "none"
    /\ cp_id' = 0
    /\ cp_before' = NoCall
    /\ UNCHANGED <<index_, max_checkpoints_, cp_running_, cp_joinable, cp_stop_pc>>
    /\ UNCHANGED <<shard_, cp_saved>>
    /\ UNCHANGED <<fdVars, diVars>>

\* restore_latest() with checkpoints_ empty: returns false, shard_->load is
\* not called.  cp_result = <<"restore", returned flag, id of the file handed
\* to load or 0>>.
restore_latest_empty ==
    /\ cp_mutex_ = "free"
    /\ checkpoints_ = << >>
    /\ cp_result' = <<"restore", FALSE, 0>>
    /\ UNCHANGED <<index_, files, max_checkpoints_, checkpoints_, cp_running_, cp_joinable,
                   cp_mutex_, cp_pc, cp_stop_pc, cp_stage, cp_id, created, cp_before>>
    /\ UNCHANGED <<shard_, cp_saved>>
    /\ UNCHANGED <<fdVars, diVars>>

\* LatestId taking checkpoints_.front() instead.
LatestIdOldest(cps) == cps[1].id

\* The file restore_latest hands to shard_->load: that of checkpoints_.back().
LatestId(cps) == cps[Len(cps)].id

\* restore_latest(), the load succeeds: the engine holds the snapshot.
restore_latest_loads ==
    /\ cp_mutex_ = "free"
    /\ checkpoints_ # << >>
    /\ LatestId(checkpoints_) \in DOMAIN files
    /\ files[LatestId(checkpoints_)].intact
    /\ index_' = files[LatestId(checkpoints_)].keys
    /\ cp_result' = <<"restore", TRUE, LatestId(checkpoints_)>>
    /\ UNCHANGED <<files, max_checkpoints_, checkpoints_, cp_running_, cp_joinable,
                   cp_mutex_, cp_pc, cp_stop_pc, cp_stage, cp_id, created, cp_before>>
    /\ UNCHANGED <<shard_, cp_saved>>
    /\ UNCHANGED <<fdVars, diVars>>

\* restore_latest(), the load fails (missing or unreadable file, I/O error):
\* the engine keeps its state or is left reset.
restore_latest_load_fails ==
    /\ cp_mutex_ = "free"
    /\ checkpoints_ # << >>
    /\ \E reset \in BOOLEAN : index_' = IF reset THEN {} ELSE index_
    /\ cp_result' = <<"restore", FALSE, LatestId(checkpoints_)>>
    /\ UNCHANGED <<files, max_checkpoints_, checkpoints_, cp_running_, cp_joinable,
                   cp_mutex_, cp_pc, cp_stop_pc, cp_stage, cp_id, created, cp_before>>
    /\ UNCHANGED <<shard_, cp_saved>>
    /\ UNCHANGED <<fdVars, diVars>>

\* example_03_checkpoint_recovery, lines 615-616: a new empty ShardNode is
\* constructed and shard_ is pointed at it, while no call holds mutex_.  The
\* manager no longer reaches the first shard.
rebind_new_shard ==
    /\ cp_mutex_ = "free"
    /\ shard_ = "shard"
    /\ shard_' = "new_shard"
    /\ index_' = {}
    /\ UNCHANGED <<files, max_checkpoints_, checkpoints_, cp_running_, cp_joinable,
                   cp_mutex_, cp_pc, cp_stop_pc, cp_stage, cp_id, created, cp_result,
                   cp_before, cp_saved>>
    /\ UNCHANGED <<fdVars, diVars>>

\* start(): a second start() on a joinable std::thread terminates the program.
cp_start ==
    /\ ~cp_joinable
    /\ cp_running_' = TRUE
    /\ cp_joinable' = TRUE
    /\ cp_pc' = "test"
    /\ UNCHANGED <<index_, files, max_checkpoints_, checkpoints_, cp_mutex_, cp_stop_pc,
                   cp_stage, cp_id, created, cp_result, cp_before>>
    /\ UNCHANGED <<shard_, cp_saved>>
    /\ UNCHANGED <<fdVars, diVars>>

\* stop(), first half: clear the flag, then block in join() if joinable.
cp_stop_begin ==
    /\ cp_stop_pc = "none"
    /\ cp_running_' = FALSE
    /\ cp_stop_pc' = IF cp_joinable THEN "join" ELSE "none"
    /\ UNCHANGED <<index_, files, max_checkpoints_, checkpoints_, cp_joinable, cp_mutex_,
                   cp_pc, cp_stage, cp_id, created, cp_result, cp_before>>
    /\ UNCHANGED <<shard_, cp_saved>>
    /\ UNCHANGED <<fdVars, diVars>>

\* stop(), second half: join() returns and so does stop().
cp_stop_join ==
    /\ cp_stop_pc = "join"
    /\ JoinReturns(cp_pc)
    /\ cp_joinable' = FALSE
    /\ cp_stop_pc' = "none"
    /\ UNCHANGED <<index_, files, max_checkpoints_, checkpoints_, cp_running_, cp_mutex_,
                   cp_pc, cp_stage, cp_id, created, cp_result, cp_before>>
    /\ UNCHANGED <<shard_, cp_saved>>
    /\ UNCHANGED <<fdVars, diVars>>

\* checkpoint_loop: evaluation of while (running_).
checkpoint_loop_test ==
    /\ cp_pc = "test"
    /\ cp_pc' = IF cp_running_ THEN "sleep" ELSE "done"
    /\ UNCHANGED <<index_, files, max_checkpoints_, checkpoints_, cp_running_, cp_joinable,
                   cp_mutex_, cp_stop_pc, cp_stage, cp_id, created, cp_result, cp_before>>
    /\ UNCHANGED <<shard_, cp_saved>>
    /\ UNCHANGED <<fdVars, diVars>>

\* checkpoint_loop: the sleep ends and if (running_) is evaluated.
checkpoint_loop_wake ==
    /\ cp_pc = "sleep"
    /\ cp_pc' = IF cp_running_ THEN "create" ELSE "test"
    /\ UNCHANGED <<index_, files, max_checkpoints_, checkpoints_, cp_running_, cp_joinable,
                   cp_mutex_, cp_stop_pc, cp_stage, cp_id, created, cp_result, cp_before>>
    /\ UNCHANGED <<shard_, cp_saved>>
    /\ UNCHANGED <<fdVars, diVars>>

CPNext ==
    \/ \E k \in Key : shard_add(k)
    \/ \E who \in {"manual", "loop"} : create_checkpoint_enter(who)
    \/ create_checkpoint_save_ok
    \/ create_checkpoint_save_fails
    \/ create_checkpoint_record
    \/ restore_latest_empty
    \/ restore_latest_loads
    \/ restore_latest_load_fails
    \/ rebind_new_shard
    \/ cp_start
    \/ cp_stop_begin
    \/ cp_stop_join
    \/ checkpoint_loop_test
    \/ checkpoint_loop_wake

\* ------------------------------------- the locks of manager and shard
\* create_checkpoint and restore_latest (lines 304-363) hold
\* CheckpointManager::mutex_ from their first statement to their return and
\* call ShardNode::save, size and load, each of which holds ShardNode::mutex_
\* for its own duration (distributed_examples.cpp, lines 89-107); add and
\* search of the clients take ShardNode::mutex_ only (lines 68-86).  The data
\* of manager and shard is followed in the actions above and left out here.

\* The threads that call the manager: any thread, and checkpoint_loop.
Caller == {"manual", "loop"}

\* A lock_guard whose destructor leaves the mutex locked.
KeptOnReturn(holder) == holder

\* ~lock_guard, when save, size, load, add or search returns: mutex_ is free.
ReleasedOnReturn(holder) == <<"free">>

LockIdle ==
    [lk_mutex_ |-> "free",
     lk_shard_mutex_ |-> <<"free">>,
     lk_pc |-> [w \in Caller |-> "idle"],
     lk_op |-> [w \in Caller |-> "none"],
     lk_client_pc |-> [c \in Client |-> "idle"],
     lk_client_op |-> [c \in Client |-> "none"]]

\* A thread calls create_checkpoint or restore_latest and reaches the
\* lock_guard on mutex_ (lines 305, 340); checkpoint_loop, its sleep over,
\* calls create_checkpoint (line 372).
manager_call(w, op) ==
    /\ lk_pc[w] = "idle"
    /\ w = "loop" => op = "create_checkpoint"
    /\ ext' = [ext EXCEPT !.lk.lk_pc[w] = "lock_manager",
                          !.lk.lk_op[w] = op]
    /\ UNCHANGED <<fdVars, cpVars, batchVars, searchVars, mergeVars>>

\* Lines 305 and 340: the lock_guard takes mutex_ of the manager.
manager_lock(w) ==
    /\ lk_pc[w] = "lock_manager"
    /\ lk_mutex_ = "free"
    /\ ext' = [ext EXCEPT !.lk.lk_mutex_ = w,
                          !.lk.lk_pc[w] = IF lk_op[w] = "create_checkpoint"
                                          THEN "lock_save" ELSE "test_empty"]
    /\ UNCHANGED <<fdVars, cpVars, batchVars, searchVars, mergeVars>>

\* restore_latest, lines 342-345 and 353: checkpoints_ is empty and the call
\* is about to return false, or shard_->load is called.
restore_latest_test(w) ==
    /\ lk_pc[w] = "test_empty"
    /\ \E empty \in BOOLEAN :
          ext' = [ext EXCEPT !.lk.lk_pc[w] = IF empty THEN "leave" ELSE "lock_load"]
    /\ UNCHANGED <<fdVars, cpVars, batchVars, searchVars, mergeVars>>

\* shard_->save, shard_->size or shard_->load (lines 318, 323, 353): the
\* lock_guard of the ShardNode method takes mutex_ of the shard.
manager_shard_lock(w) ==
    /\ lk_pc[w] \in {"lock_save", "lock_size", "lock_load"}
    /\ lk_shard_mutex_ = <<"free">>
    /\ ext' = [ext EXCEPT !.lk.lk_shard_mutex_ = <<"caller", w>>,
                          !.lk.lk_pc[w] = IF lk_pc[w] = "lock_save" THEN "save"
                                          ELSE IF lk_pc[w] = "lock_size" THEN "size"
                                          ELSE "load"]
    /\ UNCHANGED <<fdVars, cpVars, batchVars, searchVars, mergeVars>>

\* The ShardNode method returns and releases mutex_ of the shard.  After a
\* successful save create_checkpoint goes on to shard_->size() (line 323);
\* after a failed save it throws (line 336); after size and after load the
\* caller's method runs to its return.
manager_shard_return(w) ==
    /\ lk_pc[w] \in {"save", "size", "load"}
    /\ \E saved \in BOOLEAN :
          ext' = [ext EXCEPT !.lk.lk_shard_mutex_ = ReleasedOnReturn(@),
                             !.lk.lk_pc[w] = IF lk_pc[w] = "save" /\ saved
                                             THEN "lock_size" ELSE "leave"]
    /\ UNCHANGED <<fdVars, cpVars, batchVars, searchVars, mergeVars>>

\* create_checkpoint or restore_latest is left, by return or by the throw of
\* line 336 (caught in checkpoint_loop, line 373): the lock_guard releases
\* mutex_ of the manager.
manager_leave(w) ==
    /\ lk_pc[w] = "leave"
    /\ ext' = [ext EXCEPT !.lk.lk_mutex_ = "free",
                          !.lk.lk_pc[w] = "idle",
                          !.lk.lk_op[w] = "none"]
    /\ UNCHANGED <<fdVars, cpVars, batchVars, searchVars, mergeVars>>

\* A client calls add or search of the shard and reaches its lock_guard.
client_call(c, op) ==
    /\ lk_client_pc[c] = "idle"
    /\ ext' = [ext EXCEPT !.lk.lk_client_pc[c] = "lock",
                          !.lk.lk_client_op[c] = op]
    /\ UNCHANGED <<fdVars, cpVars, batchVars, searchVars, mergeVars>>

\* Lines 69 and 84 of distributed_examples.cpp: the lock_guard takes mutex_.
client_lock(c) ==
    /\ lk_client_pc[c] = "lock"
    /\ lk_shard_mutex_ = <<"free">>
    /\ ext' = [ext EXCEPT !.lk.lk_shard_mutex_ = <<"client", c>>,
                          !.lk.lk_client_pc[c] = "engine"]
    /\ UNCHANGED <<fdVars, cpVars, batchVars, searchVars, mergeVars>>

\* add or search returns and releases mutex_ of the shard.
client_return(c) ==
    /\ lk_client_pc[c] = "engine"
    /\ ext' = [ext EXCEPT !.lk.lk_shard_mutex_ = ReleasedOnReturn(@),
                          !.lk.lk_client_pc[c] = "idle",
                          !.lk.lk_client_op[c] = "none"]
    /\ UNCHANGED <<fdVars, cpVars, batchVars, searchVars, mergeVars>>

\* The steps of a call that has begun.
LockProgress ==
    \/ \E w \in Caller : manager_lock(w)
    \/ \E w \in Caller : restore_latest_test(w)
    \/ \E w \in Caller : manager_shard_lock(w)
    \/ \E w \in Caller : manager_shard_return(w)
    \/ \E w \in Caller : manager_leave(w)
    \/ \E c \in Client : client_lock(c)
    \/ \E c \in Client : client_return(c)

LockNext ==
    \/ \E w \in Caller, op \in {"create_checkpoint", "restore_latest"} : manager_call(w, op)
    \/ \E c \in Client, op \in {"add", "search"} : client_call(c, op)
    \/ LockProgress

\* ==================================================== DistributedIndex ==
\* Every DistributedIndex of the examples is built on a HashSharding.

\* std::hash<vector_key_t>{}(key): the value itself (libstdc++, libc++).
StdHash(key) == key

\* HashSharding::shard_id(key)
shard_id(key) == StdHash(key) % NumShards

\* HashSharding::target_shards(query, n_probe): 0, 1, ..., min(n_probe, num_shards_) - 1
TargetShards(n_probe) == [i \in 1..Min(n_probe, NumShards) |-> i - 1]

\* search() without lines 298-300.
ClampProbeNot(n_probe) == n_probe

\* search(), lines 298-300: n_probe = 0 or n_probe > shards_.size() means all shards.
ClampProbe(n_probe) == IF n_probe = 0 \/ n_probe > NumShards THEN NumShards ELSE n_probe

\* The values of the argument n_probe: 0, every number of shards, and one more.
Probe == 0..(NumShards + 1)

\* ShardNode::add / add_batch: the flag returned, given whether the engine
\* accepted the insertion (lines 70-71 and 77-78: the engine's result is dropped).
ShardAddReturns(accepted) == TRUE

\* DistributedIndex::add_batch: the flag returned, given the flags the futures
\* delivered (lines 282-284 and 290: future.get() is called for the wait only).
AddBatchReturns(flags) == TRUE

\* future.get() returning without the wait.
FutureReadyAtOnce(task) == TRUE

\* future.get(), lines 283 and 319: the call returns once the task of the
\* future is neither waiting to run nor running.
FutureReady(task) == task[1] \notin {"launched", "running"}

\* The shards a std::async task was created for.
Dispatched(tasks) == {s \in Shard : tasks[s] # <<"none">>}

\* The arguments keys / count of add_batch: up to MaxCount keys, repeats allowed.
KeyList == UNION {[1..count -> BatchKey] : count \in 0..MaxCount}

\* add_batch(), lines 250-255: push every key, in input order, to the group
\* of the shard that strategy_->shard_id gives for it.
RECURSIVE GroupKeys(_, _)
GroupKeys(keys, grouped) ==
    IF keys = << >> THEN grouped
    ELSE GroupKeys(Tail(keys),
                   [grouped EXCEPT ![shard_id(Head(keys))] = Append(@, Head(keys))])

BatchInit ==
    /\ shards_ = [s \in Shard |-> {}]
    /\ ab_keys = << >>
    /\ groups = [s \in Shard |-> << >>]
    /\ ab_pc = "idle"
    /\ ab_task = [s \in Shard |-> <<"none">>]
    /\ ab_next = 0
    /\ ab_result = <<"none">>

\* add() calling ShardNode::add of every shard.
AddTargetsAll(key) == Shard

\* add(), lines 240-241: the shards whose ShardNode::add is called.
AddTargets(key) == {shard_id(key)}

\* DistributedIndex::add(key, vector), lines 239-242, from any client thread:
\* one ShardNode::add under the lock of the shard.
di_add(key) ==
    /\ \E accepted \in BOOLEAN :
          /\ shards_' = [s \in Shard |-> IF s \in AddTargets(key) /\ accepted
                                         THEN shards_[s] \cup {key}
                                         ELSE shards_[s]]
          /\ ab_result' = <<"add", ShardAddReturns(accepted), accepted>>
    /\ UNCHANGED <<ab_keys, groups, ab_pc, ab_task, ab_next>>
    /\ UNCHANGED <<fdVars, cpVars, searchVars, mergeVars, extVars>>

\* add_batch(), lines 250-279: group the keys by shard and create one task per
\* non-empty group.
add_batch_dispatch(keys) ==
    /\ ab_pc = "idle"
    /\ ab_keys' = keys
    /\ groups' = GroupKeys(keys, [s \in Shard |-> << >>])
    /\ ab_task' = [s \in Shard |-> IF groups'[s] # << >> THEN <<"running">> ELSE <<"none">>]
    /\ ab_next' = 0
    /\ ab_pc' = "get"
    /\ ab_result' = <<"none">>
    /\ UNCHANGED shards_
    /\ UNCHANGED <<fdVars, cpVars, searchVars, mergeVars, extVars>>

\* The task of shard s, lines 261-277: ShardNode::add_batch of its group in one
\* critical section; the engine takes the whole group or rejects it.
add_batch_task(s) ==
    /\ ab_task[s] = <<"running">>
    /\ \E accepted \in BOOLEAN :
          /\ shards_' = IF accepted
                        THEN [shards_ EXCEPT
                                 ![s] = @ \cup {groups[s][j] : j \in DOMAIN groups[s]}]
                        ELSE shards_
          /\ ab_task' = [ab_task EXCEPT ![s] = <<"done", accepted, ShardAddReturns(accepted)>>]
    /\ UNCHANGED <<ab_keys, groups, ab_pc, ab_next, ab_result>>
    /\ UNCHANGED <<fdVars, cpVars, searchVars, mergeVars, extVars>>

\* add_batch(), lines 282-284: future.get() of the next future returns once its
\* task has finished; a shard without a group has no future.
add_batch_get ==
    /\ ab_pc = "get"
    /\ ab_next < NumShards
    /\ FutureReady(ab_task[ab_next])
    /\ ab_next' = ab_next + 1
    /\ UNCHANGED <<shards_, ab_keys, groups, ab_pc, ab_task, ab_result>>
    /\ UNCHANGED <<fdVars, cpVars, searchVars, mergeVars, extVars>>

\* add_batch() taking the keys of the accepted groups out again when a group
\* was rejected.
AfterJoinRolledBack(contents, tasks, grouped) ==
    IF \E s \in Dispatched(tasks) : ~tasks[s][2]
    THEN [s \in Shard |-> IF s \in Dispatched(tasks) /\ tasks[s][2]
                          THEN contents[s] \ {grouped[s][j] : j \in DOMAIN grouped[s]}
                          ELSE contents[s]]
    ELSE contents

\* add_batch(), lines 282-290: what the caller does to the shards once the
\* futures have been waited for: nothing, whatever the tasks met.
AfterJoin(contents, tasks, grouped) == contents

\* add_batch(), line 290: return.
add_batch_return ==
    /\ ab_pc = "get"
    /\ ab_next = NumShards
    /\ ab_result' = <<"add_batch",
                      AddBatchReturns({ab_task[s][3] : s \in Dispatched(ab_task)}),
                      ab_task, ab_keys, groups>>
    /\ ab_pc' = "idle"
    /\ ab_keys' = << >>
    /\ groups' = [s \in Shard |-> << >>]
    /\ ab_task' = [s \in Shard |-> <<"none">>]
    /\ ab_next' = 0
    /\ shards_' = AfterJoin(shards_, ab_task, groups)
    /\ UNCHANGED <<fdVars, cpVars, searchVars, mergeVars, extVars>>

BatchNext ==
    \/ \E key \in BatchKey : di_add(key)
    \/ \E keys \in KeyList : add_batch_dispatch(keys)
    \/ \E s \in Shard : add_batch_task(s)
    \/ add_batch_get
    \/ add_batch_return

\* ------------------------------------------------------------- read path

\* The iterations of the range-for of search().
Iteration == 1..NumShards

SearchInit ==
    /\ query_count_ = [s \in Shard |-> 0]
    /\ total_queries_ = 0
    /\ target_shards = << >>
    /\ se_pc = "idle"
    /\ se_i = 0
    /\ se_task = [i \in Iteration |-> <<"none">>]
    /\ se_get = 0
    /\ se_collected = << >>
    /\ qc_before = [s \in Shard |-> 0]
    /\ se_result = <<"none">>

\* search(), lines 296-306: count the query, clamp n_probe, ask the strategy.
search_begin(n_probe) ==
    /\ se_pc = "idle"
    /\ total_queries_ < MaxQueries
    /\ total_queries_' = total_queries_ + 1
    /\ target_shards' = TargetShards(ClampProbe(n_probe))
    /\ se_pc' = "launch"
    /\ se_i' = 1
    /\ qc_before' = query_count_
    /\ se_result' = <<"none">>
    /\ ext' = [ext EXCEPT !.se.se_n_probe = n_probe]
    /\ UNCHANGED <<query_count_, se_task, se_get, se_collected>>
    /\ UNCHANGED <<fdVars, cpVars, batchVars, mergeVars>>

\* search(), lines 310-313: iteration se_i of the range-for has copied its
\* element into the loop variable shard_id and creates the task.
search_launch ==
    /\ se_pc = "launch"
    /\ se_task' = [se_task EXCEPT ![se_i] = <<"launched">>]
    /\ se_pc' = "iterate"
    /\ UNCHANGED <<query_count_, total_queries_, target_shards, se_i, se_get, se_collected,
                   qc_before, se_result>>
    /\ UNCHANGED <<fdVars, cpVars, batchVars, mergeVars, extVars>>

\* search(), line 314: iteration se_i ends, which ends the lifetime of its
\* shard_id; the loop goes on to the next element or is left.
search_iterate ==
    /\ se_pc = "iterate"
    /\ IF se_i < Len(target_shards)
       THEN se_i' = se_i + 1 /\ se_pc' = "launch" /\ se_get' = se_get
       ELSE se_i' = 0 /\ se_pc' = "collect" /\ se_get' = 1
    /\ UNCHANGED <<query_count_, total_queries_, target_shards, se_task, se_collected,
                   qc_before, se_result>>
    /\ UNCHANGED <<fdVars, cpVars, batchVars, mergeVars, extVars>>

\* The values task i can find when it reads shard_id, line 312.  The lambda
\* captures the loop variable by reference ([&]): while iteration i is still
\* running the variable holds target_shards[i]; afterwards the reference
\* dangles and the read yields whatever the storage holds, any index.
ShardIdRead(i) ==
    IF se_pc = "iterate" /\ se_i = i THEN {target_shards[i]} ELSE Shard

\* The task of iteration i, line 312, and ShardNode::search, lines 82-86: read
\* shard_id, count the query on that shard, search it; the search may throw.
search_task(i) ==
    /\ se_task[i] = <<"launched">>
    /\ \E sid \in ShardIdRead(i), threw \in BOOLEAN :
          /\ query_count_' = [query_count_ EXCEPT ![sid] = @ + 1]
          /\ se_task' = [se_task EXCEPT ![i] = <<"done", sid, threw>>]
    /\ UNCHANGED <<total_queries_, target_shards, se_pc, se_i, se_get, se_collected,
                   qc_before, se_result>>
    /\ UNCHANGED <<fdVars, cpVars, batchVars, mergeVars, extVars>>

\* search(), lines 319-320: what future.get() of a finished task does to the
\* caller: the results are appended, or the exception of the task is rethrown.
GetOutcome(threw) == IF threw THEN "rethrow" ELSE "append"

\* search(), lines 318-321: future.get() of the next future, once its task has
\* finished.
search_get ==
    /\ se_pc = "collect"
    /\ se_get <= Len(target_shards)
    /\ FutureReady(se_task[se_get])
    /\ LET out == GetOutcome(se_task[se_get][3])
       IN  /\ se_collected' = IF out = "append"
                              THEN Append(se_collected, se_task[se_get][2])
                              ELSE se_collected
           /\ se_pc' = IF out = "rethrow" THEN "unwind" ELSE se_pc
    /\ se_get' = se_get + 1
    /\ UNCHANGED <<query_count_, total_queries_, target_shards, se_i, se_task, qc_before,
                   se_result>>
    /\ UNCHANGED <<fdVars, cpVars, batchVars, mergeVars, extVars>>

\* What a search call leaves behind in se_result: how it was left, its target
\* shards, its tasks as they ended, the shards whose results it had appended
\* and by how much it raised each query counter.
SearchOutcome(how) ==
    <<"search", how, target_shards, se_task, se_collected,
      [s \in Shard |-> query_count_[s] - qc_before[s]]>>

\* search(), lines 323-347: all futures were collected; the merge runs and the
\* call returns.
search_return ==
    /\ se_pc = "collect"
    /\ se_get > Len(target_shards)
    /\ se_result' = SearchOutcome("returned")
    /\ se_pc' = "idle"
    /\ target_shards' = << >>
    /\ se_task' = [i \in Iteration |-> <<"none">>]
    /\ se_get' = 0
    /\ se_collected' = << >>
    /\ qc_before' = [s \in Shard |-> 0]
    /\ UNCHANGED <<query_count_, total_queries_, se_i>>
    /\ UNCHANGED <<fdVars, cpVars, batchVars, mergeVars, extVars>>

\* search() left by the exception: the destructors of the remaining futures
\* block until their tasks have finished, then the exception reaches the caller.
search_unwind ==
    /\ se_pc = "unwind"
    /\ \A i \in 1..Len(target_shards) : se_task[i][1] = "done"
    /\ se_result' = SearchOutcome("exception")
    /\ se_pc' = "idle"
    /\ target_shards' = << >>
    /\ se_task' = [i \in Iteration |-> <<"none">>]
    /\ se_get' = 0
    /\ se_collected' = << >>
    /\ qc_before' = [s \in Shard |-> 0]
    /\ UNCHANGED <<query_count_, total_queries_, se_i>>
    /\ UNCHANGED <<fdVars, cpVars, batchVars, mergeVars, extVars>>

SearchNext ==
    \/ \E n_probe \in Probe : search_begin(n_probe)
    \/ search_launch
    \/ search_iterate
    \/ \E i \in Iteration : search_task(i)
    \/ search_get
    \/ search_return
    \/ search_unwind

\* ------------------------------------------- one caller, write then read
\* example_01_basic_distributed_search, lines 425 and 441: the caller fills the
\* index with one add_batch and then searches it.

join_add_batch(keys) ==
    /\ ab_result = <<"none">>
    /\ add_batch_dispatch(keys)

join_search(n_probe) ==
    /\ ab_pc = "idle"
    /\ ab_result[1] = "add_batch"
    /\ total_queries_ = 0
    /\ search_begin(n_probe)

JoinNext ==
    \/ \E keys \in KeyList : join_add_batch(keys)
    \/ \E s \in Shard : add_batch_task(s)
    \/ add_batch_get
    \/ add_batch_return
    \/ \E n_probe \in Probe : join_search(n_probe)
    \/ search_launch
    \/ search_iterate
    \/ \E i \in Iteration : search_task(i)
    \/ search_get
    \/ search_return
    \/ search_unwind

\* ----------------------------------------------------------------- merge
\* Lines 323-341 of DistributedIndex::search; ProductionCluster::parallel_search
\* (advanced_distributed.cpp, lines 762-779) has the same statements.

\* The rearrangements of a sequence.
Rearrangements(sq) ==
    {[i \in 1..Len(sq) |-> sq[f[i]]] : f \in Permutations(1..Len(sq))}

\* The comparator of line 325: a.key < b.key
KeyLess(a, b) == a.key < b.key

\* The comparator of lines 335-337: a.distance < b.distance
DistanceLess(a, b) == a.distance < b.distance

\* The predicate of line 328: a.key == b.key
KeyEqual(a, b) == a.key = b.key

\* std::sort(begin, end, KeyLess): some rearrangement in which no element is
\* preceded by a greater one; the order of equal elements is unspecified.
SortedByKey(sq) ==
    {q \in Rearrangements(sq) : \A i, j \in 1..Len(q) : i < j => ~KeyLess(q[j], q[i])}

\* std::unique + erase, lines 326-330: of every run of equal elements the
\* first is kept.
RECURSIVE Unique(_)
Unique(sq) ==
    IF Len(sq) <= 1 THEN sq
    ELSE LET rest == Unique(Tail(sq))
         IN  IF KeyEqual(sq[1], rest[1]) THEN <<sq[1]>> \o Tail(rest) ELSE <<sq[1]>> \o rest

\* std::partial_sort(begin, begin + n, end, DistanceLess) with begin + n within
\* the range: a rearrangement whose first n elements are the n smallest in
\* ascending order; the order of the others is unspecified.
PartialSorted(sq, n) ==
    {q \in Rearrangements(sq) :
        /\ \A i, j \in 1..n : i < j => ~DistanceLess(q[j], q[i])
        /\ \A i \in 1..n : \A j \in (n + 1)..Len(q) : ~DistanceLess(q[j], q[i])}

\* std::partial_sort(begin, begin + n, end, DistanceLess) with begin + n
\* beyond end(): undefined.  The heap sort then runs over the vector's elements
\* and the n - size() slots behind them, whatever these hold; the vector keeps
\* its size and so the first size() slots of the outcome.
PartialSortedBeyondEnd(sq, n) ==
    UNION {{SubSeq(q, 1, Len(sq)) : q \in PartialSorted(sq \o behind, n)} :
              behind \in [1..(n - Len(sq)) -> Entry]}

\* No search call is in its merge.
MergeIdle ==
    /\ all_results = << >>
    /\ mg_k = 0
    /\ mg_pc = "none"
    /\ mg_collected = << >>
    /\ mg_unique = << >>
    /\ mg_overrun = FALSE

\* Line 321 has run for every future: any entries were collected, for any k.
MergeInit ==
    /\ all_results \in UNION {[1..n -> Entry] : n \in 0..MaxResults}
    /\ mg_k \in 0..MaxK
    /\ mg_pc = "sort"
    /\ mg_collected = all_results
    /\ mg_unique = << >>
    /\ mg_overrun = FALSE

\* Lines 324-325.
merge_sort ==
    /\ mg_pc = "sort"
    /\ all_results' \in SortedByKey(all_results)
    /\ mg_pc' = "unique"
    /\ UNCHANGED <<mg_k, mg_collected, mg_unique, mg_overrun>>
    /\ UNCHANGED <<fdVars, cpVars, batchVars, searchVars, extVars>>

\* Lines 326-330.
merge_unique ==
    /\ mg_pc = "unique"
    /\ all_results' = Unique(all_results)
    /\ mg_unique' = all_results'
    /\ mg_pc' = "partial_sort"
    /\ UNCHANGED <<mg_k, mg_collected, mg_overrun>>
    /\ UNCHANGED <<fdVars, cpVars, batchVars, searchVars, extVars>>

\* Lines 333-337.
merge_partial_sort ==
    /\ mg_pc = "partial_sort"
    /\ IF mg_k <= Len(all_results)
       THEN /\ all_results' \in PartialSorted(all_results, mg_k)
            /\ UNCHANGED mg_overrun
       ELSE /\ all_results' \in PartialSortedBeyondEnd(all_results, mg_k)
            /\ mg_overrun' = TRUE
    /\ mg_pc' = "resize"
    /\ UNCHANGED <<mg_k, mg_collected, mg_unique>>
    /\ UNCHANGED <<fdVars, cpVars, batchVars, searchVars, extVars>>

\* Lines 339-347: resize and return all_results.
merge_resize ==
    /\ mg_pc = "resize"
    /\ all_results' = IF Len(all_results) > mg_k THEN SubSeq(all_results, 1, mg_k) ELSE all_results
    /\ mg_pc' = "returned"
    /\ UNCHANGED <<mg_k, mg_collected, mg_unique, mg_overrun>>
    /\ UNCHANGED <<fdVars, cpVars, batchVars, searchVars, extVars>>

MergeNext ==
    \/ merge_sort
    \/ merge_unique
    \/ merge_partial_sort
    \/ merge_resize

\* ================================================ AdaptiveLoadBalancer ==
\* advanced_distributed.cpp, lines 396-478.  The counters are atomics that
\* record_request_start and record_request_end touch without mutex_; only
\* select_shard takes mutex_.  A double is modelled exactly: avg_latency_ms is
\* a whole number of 1/Scale ms, and a latency_ms is a whole number of ms that
\* is neither negative nor NaN.

\* One millisecond, in the unit of avg_latency_ms: every digit that
\* MaxRequests updates of line 450 can produce is kept.
Scale == 10 ^ MaxRequests

\* Sum of f over the finite set S.
RECURSIVE Sum(_, _)
Sum(f, S) == IF S = {} THEN 0
             ELSE LET x == CHOOSE y \in S : TRUE IN f[x] + Sum(f, S \ {x})

\* Line 429: score = active + latency / 10.0, in units of 1/(10 * Scale).
Score(active, latency) == active * LatencyWeight * Scale + latency

\* Line 431 with "<=" for "<".
ScoreLessOrEqual(score, best) == best[1] = "max" \/ score <= best[2]

\* Line 431: score < best_score, where best_score starts at
\* numeric_limits<double>::max() (line 422).
ScoreLess(score, best) == best[1] = "max" \/ score < best[2]

\* Line 450: new_avg = old_avg * 0.9 + latency_ms * 0.1
Ema(old_avg, latency_ms) ==
    (old_avg * EmaKeepTenths + latency_ms * Scale * EmaNewTenths) \div 10

\* fetch_add(1) that loses the increment.
FetchAddLost(v) == v

\* std::atomic::fetch_add(1): the value stored.
FetchAdd(v) == v + 1

\* fetch_sub(1) that loses the decrement.
FetchSubLost(v) == v

\* std::atomic::fetch_sub(1): the value stored.  The counters are
\* std::uint64_t (lines 398-401) and are computed modulo 2^64; a value is
\* written as its representative nearest to zero, so that -n stands for
\* 2^64 - n, the value fetch_sub leaves n steps below zero.
FetchSub(v) == v - 1

\* a <= b between two std::uint64_t values: a representative below zero
\* stands for a value above every representative from zero on.
UnsignedLessEq(a, b) == IF (a < 0) = (b < 0) THEN a <= b ELSE b < 0

\* The fields of ext.lb when no call on the balancer is running, given the
\* statistics.
LBNoCall(active, total, avg, starts, ends, observed) ==
    [active_requests |-> active,
     total_requests |-> total,
     avg_latency_ms |-> avg,
     error_count |-> [s \in Shard |-> 0],
     lb_mutex_ |-> 0,
     lb_pc |-> [c \in Client |-> "idle"],
     lb_shard |-> [c \in Client |-> 0],
     lb_latency |-> [c \in Client |-> 0],
     lb_success |-> [c \in Client |-> TRUE],
     lb_old_avg |-> [c \in Client |-> 0],
     sc_next |-> 0,
     sc_pc |-> "active",
     sc_active |-> 0,
     best_shard |-> 0,
     best_score |-> <<"max">>,
     sc_seen |-> << >>,
     lb_result |-> <<"none">>,
     lb_starts |-> starts,
     lb_ends |-> ends,
     lb_failed |-> [s \in Shard |-> 0],
     lb_observed |-> observed]

\* The constructor, lines 410-414: zero counters.
LBInit ==
    LBNoCall([s \in Shard |-> 0], [s \in Shard |-> 0], [s \in Shard |-> 0],
             [s \in Shard |-> 0], [s \in Shard |-> 0], [s \in Shard |-> << >>])

\* The balancers between calls: on every shard one request has ended, with
\* success and any latency, and up to MaxRequests further ones are running.
SelectInit ==
    {LBNoCall(running,
              [s \in Shard |-> running[s] + 1],
              [s \in Shard |-> Ema(0, ended[s])],
              [s \in Shard |-> running[s] + 1],
              [s \in Shard |-> 1],
              [s \in Shard |-> <<ended[s]>>]) :
        running \in [Shard -> 0..MaxRequests], ended \in [Shard -> Latency]}

\* select_shard(), lines 419-422: take mutex_, initialise the locals.
select_begin(c) ==
    /\ lb_pc[c] = "idle"
    /\ lb_mutex_ = 0
    /\ ext' = [ext EXCEPT !.lb.lb_mutex_ = c,
                          !.lb.lb_pc[c] = "scan",
                          !.lb.sc_next = 0,
                          !.lb.sc_pc = "active",
                          !.lb.sc_active = 0,
                          !.lb.best_shard = 0,
                          !.lb.best_score = <<"max">>,
                          !.lb.sc_seen = << >>,
                          !.lb.lb_result = <<"none">>]
    /\ UNCHANGED <<fdVars, cpVars, batchVars, searchVars, mergeVars>>

\* select_shard(), line 425: active = shard.active_requests.load()
select_load_active(c) ==
    /\ lb_pc[c] = "scan"
    /\ sc_next < NumShards
    /\ sc_pc = "active"
    /\ ext' = [ext EXCEPT !.lb.sc_active = active_requests[sc_next],
                          !.lb.sc_pc = "latency",
                          !.lb.lb_result = <<"none">>]
    /\ UNCHANGED <<fdVars, cpVars, batchVars, searchVars, mergeVars>>

\* select_shard(), lines 426-434: load the latency, compute the score, keep
\* the shard if its score is below the best so far.
select_load_latency(c) ==
    /\ lb_pc[c] = "scan"
    /\ sc_next < NumShards
    /\ sc_pc = "latency"
    /\ LET latency == avg_latency_ms[sc_next]
           score == Score(sc_active, latency)
           better == ScoreLess(score, best_score)
       IN  ext' = [ext EXCEPT !.lb.best_score = IF better THEN <<"score", score>> ELSE @,
                              !.lb.best_shard = IF better THEN sc_next ELSE @,
                              !.lb.sc_seen = Append(@, <<sc_active, latency>>),
                              !.lb.sc_next = @ + 1,
                              !.lb.sc_pc = "active",
                              !.lb.sc_active = 0,
                              !.lb.lb_result = <<"none">>]
    /\ UNCHANGED <<fdVars, cpVars, batchVars, searchVars, mergeVars>>

\* select_shard(), line 437: return best_shard; the lock_guard releases mutex_.
select_return(c) ==
    /\ lb_pc[c] = "scan"
    /\ sc_next = NumShards
    /\ ext' = [ext EXCEPT !.lb.lb_result = <<"select_shard", best_shard, sc_seen>>,
                          !.lb.lb_pc[c] = "idle",
                          !.lb.lb_mutex_ = 0,
                          !.lb.sc_next = 0,
                          !.lb.best_shard = 0,
                          !.lb.best_score = <<"max">>,
                          !.lb.sc_seen = << >>]
    /\ UNCHANGED <<fdVars, cpVars, batchVars, searchVars, mergeVars>>

\* record_request_start(shard_id), line 441: active_requests.fetch_add(1).
\* The caller passes the shard a select_shard gave it (lines 648-651, 712-715)
\* or the shard it is about to search (line 741).
record_request_start(c, s) ==
    /\ lb_pc[c] = "idle"
    /\ Sum(lb_starts, Shard) < MaxRequests
    /\ ext' = [ext EXCEPT !.lb.active_requests[s] = FetchAdd(@),
                          !.lb.lb_shard[c] = s,
                          !.lb.lb_pc[c] = "start_total",
                          !.lb.lb_starts[s] = @ + 1,
                          !.lb.lb_result = <<"none">>]
    /\ UNCHANGED <<fdVars, cpVars, batchVars, searchVars, mergeVars>>

\* The same statement, line 441, reached from a method of the cluster: the
\* thread notes which method it runs.
cluster_request_start(c, s, call) ==
    /\ lb_pc[c] = "idle"
    /\ Sum(lb_starts, Shard) < MaxRequests
    /\ ext' = [ext EXCEPT !.lb.active_requests[s] = FetchAdd(@),
                          !.lb.lb_shard[c] = s,
                          !.lb.lb_pc[c] = "start_total",
                          !.lb.lb_starts[s] = @ + 1,
                          !.lb.lb_result = <<"none">>,
                          !.cl.cl_call[c] = call]
    /\ UNCHANGED <<fdVars, cpVars, batchVars, searchVars, mergeVars>>

\* record_request_start, line 442: total_requests.fetch_add(1); return.
record_request_start_total(c) ==
    /\ lb_pc[c] = "start_total"
    /\ ext' = [ext EXCEPT !.lb.total_requests[lb_shard[c]] = FetchAdd(@),
                          !.lb.lb_pc[c] = "started",
                          !.lb.lb_result = <<"none">>]
    /\ UNCHANGED <<fdVars, cpVars, batchVars, searchVars, mergeVars>>

\* record_request_end(shard_id, latency_ms, success), line 446, for the
\* request the client started: active_requests.fetch_sub(1).
record_request_end(c, latency_ms, success) ==
    /\ lb_pc[c] = "started"
    /\ LET s == lb_shard[c]
       IN  ext' = [ext EXCEPT !.lb.active_requests[s] = FetchSub(@),
                              !.lb.lb_ends[s] = @ + 1,
                              !.lb.lb_failed[s] = IF success THEN @ ELSE @ + 1,
                              !.lb.lb_observed[s] = Append(@, latency_ms),
                              !.lb.lb_latency[c] = latency_ms,
                              !.lb.lb_success[c] = success,
                              !.lb.lb_pc[c] = "end_load",
                              !.lb.lb_result = <<"none">>]
    /\ UNCHANGED <<fdVars, cpVars, batchVars, searchVars, mergeVars>>

\* record_request_end(shard_id, latency_ms, success), line 446, called by a
\* client that has started no request: the method is public and tests nothing
\* before active_requests.fetch_sub(1).
record_request_end_unmatched(c, s, latency_ms, success) ==
    /\ lb_pc[c] = "idle"
    /\ Sum(lb_ends, Shard) < MaxRequests
    /\ ext' = [ext EXCEPT !.lb.active_requests[s] = FetchSub(@),
                          !.lb.lb_ends[s] = @ + 1,
                          !.lb.lb_failed[s] = IF success THEN @ ELSE @ + 1,
                          !.lb.lb_observed[s] = Append(@, latency_ms),
                          !.lb.lb_shard[c] = s,
                          !.lb.lb_latency[c] = latency_ms,
                          !.lb.lb_success[c] = success,
                          !.lb.lb_pc[c] = "end_load",
                          !.lb.lb_result = <<"none">>]
    /\ UNCHANGED <<fdVars, cpVars, batchVars, searchVars, mergeVars>>

\* record_request_end, line 449: old_avg = avg_latency_ms.load()
record_request_end_load(c) ==
    /\ lb_pc[c] = "end_load"
    /\ ext' = [ext EXCEPT !.lb.lb_old_avg[c] = avg_latency_ms[lb_shard[c]],
                          !.lb.lb_pc[c] = "end_store",
                          !.lb.lb_result = <<"none">>]
    /\ UNCHANGED <<fdVars, cpVars, batchVars, searchVars, mergeVars>>

\* record_request_end, lines 450-453: avg_latency_ms.store(new_avg); return
\* if success.
record_request_end_store(c) ==
    /\ lb_pc[c] = "end_store"
    /\ LET returns == lb_success[c]
       IN  ext' = [ext EXCEPT !.lb.avg_latency_ms[lb_shard[c]] =
                                  Ema(lb_old_avg[c], lb_latency[c]),
                              !.lb.lb_old_avg[c] = 0,
                              !.lb.lb_pc[c] = IF returns THEN "idle" ELSE "end_error",
                              !.lb.lb_shard[c] = IF returns THEN 0 ELSE @,
                              !.lb.lb_latency[c] = IF returns THEN 0 ELSE @,
                              !.lb.lb_result = <<"none">>]
    /\ UNCHANGED <<fdVars, cpVars, batchVars, searchVars, mergeVars>>

\* record_request_end, lines 453-455: error_count.fetch_add(1); return.
record_request_end_error(c) ==
    /\ lb_pc[c] = "end_error"
    /\ ext' = [ext EXCEPT !.lb.error_count[lb_shard[c]] = FetchAdd(@),
                          !.lb.lb_pc[c] = "idle",
                          !.lb.lb_shard[c] = 0,
                          !.lb.lb_latency[c] = 0,
                          !.lb.lb_success[c] = TRUE,
                          !.lb.lb_result = <<"none">>]
    /\ UNCHANGED <<fdVars, cpVars, batchVars, searchVars, mergeVars>>

\* select_shard, called by the clients.
SelectNext ==
    \/ \E c \in Client : select_begin(c)
    \/ \E c \in Client : select_load_active(c)
    \/ \E c \in Client : select_load_latency(c)
    \/ \E c \in Client : select_return(c)

\* The bookkeeping of the requests, called by the clients.
LBNext ==
    \/ \E c \in Client, s \in Shard : record_request_start(c, s)
    \/ \E c \in Client : record_request_start_total(c)
    \/ \E c \in Client, latency_ms \in Latency, success \in BOOLEAN :
          record_request_end(c, latency_ms, success)
    \/ \E c \in Client : record_request_end_load(c)
    \/ \E c \in Client : record_request_end_store(c)
    \/ \E c \in Client : record_request_end_error(c)

\* ---------------------------------------------------- ProductionCluster
\* advanced_distributed.cpp, lines 672-800.  A thread is the caller of
\* smart_search or the std::async task of one shard of a parallel_search; the
\* caller of parallel_search waits for its tasks (lines 755-758) and touches no
\* counter itself.

\* The constructor, lines 680-701: no thread has run a shard search.
ClusterIdle == [cl_call |-> [c \in Client |-> "none"]]

\* The shards of which parallel_search(query, k, n_shards) creates a task,
\* line 737: i < n_shards && i < shards_.size().
ParallelShards(n_shards) == {i \in Shard : i < n_shards}

\* smart_search, lines 712-715: select_shard() gives the primary shard, an
\* index of stats_ that depends on the counters at the time of its scan and
\* changes none of them; record_request_start(primary_shard) begins.
smart_search_start(c, primary_shard) ==
    cluster_request_start(c, primary_shard, "smart_search")

\* parallel_search, lines 737-741: the task of shard i begins
\* record_request_start(i).
parallel_task_start(c, n_shards, i) ==
    /\ i \in ParallelShards(n_shards)
    /\ cluster_request_start(c, i, "parallel_search")

\* Lines 719-722 and 745-748: ShardNode::search has returned, and
\* record_request_end(shard, latency, true) begins.
cluster_search_returns(c, latency_ms) == record_request_end(c, latency_ms, TRUE)

\* Lines 719 and 745: ShardNode::search throws.  The thread leaves the method
\* without record_request_end; no caller of the examples handles the
\* exception (lines 805-889), so the thread makes no further call.
cluster_search_throws(c) ==
    /\ lb_pc[c] = "started"
    /\ ext' = [ext EXCEPT !.lb.lb_pc[c] = "thrown",
                          !.lb.lb_result = <<"none">>]
    /\ UNCHANGED <<fdVars, cpVars, batchVars, searchVars, mergeVars>>

ClusterNext ==
    \/ \E c \in Client, primary_shard \in Shard : smart_search_start(c, primary_shard)
    \/ \E c \in Client, n_shards \in 0..(NumShards + 1), i \in Shard :
          parallel_task_start(c, n_shards, i)
    \/ \E c \in Client : record_request_start_total(c)
    \/ \E c \in Client, latency_ms \in Latency : cluster_search_returns(c, latency_ms)
    \/ \E c \in Client : cluster_search_throws(c)
    \/ \E c \in Client : record_request_end_load(c)
    \/ \E c \in Client : record_request_end_store(c)

\* The two public methods called in any order.
LBApiNext ==
    \/ LBNext
    \/ \E c \in Client, s \in Shard, latency_ms \in Latency, success \in BOOLEAN :
          record_request_end_unmatched(c, s, latency_ms, success)

\* ==================================================== ShardingStrategy ==
\* distributed_examples.cpp, lines 114-211: one strategy instance of any of
\* the three classes, called directly.  shard_id and target_shards are const;
\* the only field written after construction is RoundRobinSharding::counter_,
\* by one fetch_add per shard_id call (line 156), so a call is one step
\* whatever thread makes it.

\* HashSharding::shard_id without the reduction modulo num_shards_.
HashShardIdUnreduced(key, n) == StdHash(key)

\* HashSharding::shard_id(key), line 132.
HashShardId(key, n) == StdHash(key) % n

\* RoundRobinSharding::shard_id that ignores the counter.
RoundRobinShardIdFirst(ticket, n) == 0

\* RoundRobinSharding::shard_id, line 156, given the value fetch_add returned.
RoundRobinShardId(ticket, n) == ticket % n

\* Line 187 without the special case of the last shard.
RangeMaxEven(i, n, m) == (i + 1) * (m \div n)

\* RangeSharding::RangeSharding, lines 183 and 187: max_key of shard i.
RangeMax(i, n, m) == IF i = n - 1 THEN m ELSE (i + 1) * (m \div n)

\* RangeSharding::RangeSharding(num_shards, total_keys), lines 183-189: ranges_.
RangesOf(n, m) ==
    [j \in 1..n |-> [min_key |-> (j - 1) * (m \div n),
                     max_key |-> RangeMax(j - 1, n, m),
                     shard_id |-> j - 1]]

\* RangeSharding::shard_id(key), lines 193-198: the first range holding the
\* key, else ranges_.back().
RangeShardId(ranges, key) ==
    LET hits == {j \in DOMAIN ranges :
                    key >= ranges[j].min_key /\ key < ranges[j].max_key}
    IN  IF hits # {}
        THEN ranges[CHOOSE j \in hits : \A h \in hits : j <= h].shard_id
        ELSE ranges[Len(ranges)].shard_id

\* target_shards(query, n_probe) of the three classes, lines 135-142, 159-166
\* and 201-208: 0, 1, ..., min(n_probe, n) - 1.
StrategyTargetShards(n_probe, n) == [j \in 1..Min(n_probe, n) |-> j - 1]

\* The fields of ext.rt after the constructor of class kind, lines 129, 153
\* and 182-190.
Constructed(kind, n, m) ==
    [strategy_ |-> kind,
     num_shards_ |-> n,
     total_keys |-> m,
     ranges_ |-> IF kind = "range" THEN RangesOf(n, m) ELSE << >>,
     counter_ |-> 0,
     rt_result |-> <<"none">>,
     rt_history |-> << >>]

\* The strategies a constructor can give, lines 129, 153 and 182-190.
RouteInit ==
    {Constructed(kind, n, 0) : kind \in {"hash", "round_robin"}, n \in 1..NumShards}
        \cup {Constructed("range", n, m) : n \in 1..NumShards, m \in 0..MaxTotalKeys}

\* strategy->shard_id(key), lines 131-133, 155-157 and 192-199.
\* rt_history records <<key, returned index, value fetch_add returned>>.
route_shard_id(key) ==
    /\ Len(rt_history) < MaxCalls
    /\ LET ticket == IF strategy_ = "round_robin" THEN counter_ ELSE 0
           index == CASE strategy_ = "hash" -> HashShardId(key, num_shards_)
                      [] strategy_ = "round_robin" -> RoundRobinShardId(ticket, num_shards_)
                      [] strategy_ = "range" -> RangeShardId(ranges_, key)
       IN  ext' = [ext EXCEPT !.rt.rt_result = <<"shard_id", key, index>>,
                              !.rt.rt_history = Append(@, <<key, index, ticket>>),
                              !.rt.counter_ = IF strategy_ = "round_robin"
                                              THEN FetchAdd(@) ELSE @]
    /\ UNCHANGED <<fdVars, cpVars, batchVars, searchVars, mergeVars>>

\* strategy->target_shards(query, n_probe), lines 135-142, 159-166, 201-208.
route_target_shards(n_probe) ==
    /\ ext' = [ext EXCEPT !.rt.rt_result =
                  <<"target_shards", n_probe,
                    StrategyTargetShards(n_probe, IF strategy_ = "range"
                                                  THEN Len(ranges_) ELSE num_shards_)>>]
    /\ UNCHANGED <<fdVars, cpVars, batchVars, searchVars, mergeVars>>

RouteNext ==
    \/ \E key \in RouteKey : route_shard_id(key)
    \/ \E n_probe \in 0..(NumShards + 1) : route_target_shards(n_probe)

\* ======================================= DistributedIndex persistence ==
\* distributed_examples.cpp, lines 365-388: save_all and load_all visit the
\* shards in the order of shards_ and return false at the first shard whose
\* save / load returns false.  ShardNode::save and ShardNode::load (lines
\* 98-107) run the engine under the lock of the shard and return whether the
\* engine reported success.

\* No file at the path, a file the engine cannot read, a file holding keys.
NoFile == <<"none">>
TornFile == <<"torn">>
FileOf(keys) == <<"file", keys>>

\* The range-for over shards_ that goes on after a failed shard.
LoopGoesOnAnyway(failed) == TRUE

\* Lines 369-372 and 382-385: "return false" leaves the range-for at the
\* first failed shard.
LoopGoesOn(failed) == ~failed

PersistIdle ==
    [disk |-> [s \in Shard |-> NoFile],
     pa_pc |-> "idle",
     pa_next |-> 0,
     pa_failed |-> FALSE,
     pa_attempted |-> << >>,
     pa_result |-> <<"none">>]

\* save_all(base_path) / load_all(base_path) is called.
persist_begin(which) ==
    /\ pa_pc = "idle"
    /\ ext' = [ext EXCEPT !.pa.pa_pc = which,
                          !.pa.pa_next = 0,
                          !.pa.pa_failed = FALSE,
                          !.pa.pa_attempted = << >>,
                          !.pa.pa_result = <<"none">>]
    /\ UNCHANGED <<fdVars, cpVars, batchVars, searchVars, mergeVars>>

\* save_all, lines 366-369: shard->save(path) of the next shard.  A save that
\* succeeds writes the keys the engine holds; one that fails leaves the old
\* file or a file that cannot be read.
save_all_shard ==
    /\ pa_pc = "save_all"
    /\ pa_next < NumShards
    /\ LoopGoesOn(pa_failed)
    /\ \E ok \in BOOLEAN :
          \E left \in IF ok THEN {FileOf(shards_[pa_next])} ELSE {disk[pa_next], TornFile} :
              ext' = [ext EXCEPT
                         !.pa.disk[pa_next] = left,
                         !.pa.pa_failed = ~ok,
                         !.pa.pa_attempted =
                             Append(@, <<pa_next, ok, IF ok THEN shards_[pa_next] ELSE {}>>),
                         !.pa.pa_next = @ + 1]
    /\ UNCHANGED <<fdVars, cpVars, batchVars, searchVars, mergeVars>>

\* load_all, lines 379-382: shard->load(path) of the next shard.  A load can
\* succeed only on a file that holds keys, and leaves the engine holding them;
\* one that fails leaves the engine as it was or empty.
load_all_shard ==
    /\ pa_pc = "load_all"
    /\ pa_next < NumShards
    /\ LoopGoesOn(pa_failed)
    /\ \E ok \in BOOLEAN :
          /\ ok => disk[pa_next][1] = "file"
          /\ IF ok
             THEN shards_' = [shards_ EXCEPT ![pa_next] = disk[pa_next][2]]
             ELSE \E left \in {shards_[pa_next], {}} :
                      shards_' = [shards_ EXCEPT ![pa_next] = left]
          /\ ext' = [ext EXCEPT
                        !.pa.pa_failed = ~ok,
                        !.pa.pa_attempted =
                            Append(@, <<pa_next, ok, IF ok THEN disk[pa_next][2] ELSE {}>>),
                        !.pa.pa_next = @ + 1]
    /\ UNCHANGED <<ab_keys, groups, ab_pc, ab_task, ab_next, ab_result>>
    /\ UNCHANGED <<fdVars, cpVars, searchVars, mergeVars>>

\* Lines 371 and 374, 384 and 387: return false after a failed shard, true
\* after the last shard.
persist_return ==
    /\ pa_pc \in {"save_all", "load_all"}
    /\ pa_next = NumShards \/ ~LoopGoesOn(pa_failed)
    /\ ext' = [ext EXCEPT !.pa.pa_result = <<pa_pc, ~pa_failed, pa_attempted>>,
                          !.pa.pa_pc = "idle",
                          !.pa.pa_next = 0,
                          !.pa.pa_failed = FALSE]
    /\ UNCHANGED <<fdVars, cpVars, batchVars, searchVars, mergeVars>>

\* The calls of example_05_persistence (lines 657-709): add, save_all, load_all.
PersistNext ==
    \/ \E key \in BatchKey : di_add(key)
    \/ \E which \in {"save_all", "load_all"} : persist_begin(which)
    \/ save_all_shard
    \/ load_all_shard
    \/ persist_return

\* ============================================================ ShardNode ==
\* distributed_examples.cpp, lines 52-108: client threads call the six
\* operations of the shards directly.  Each operation constructs a
\* std::lock_guard on mutex_ of its shard as its first statement (search after
\* the fetch_add on query_count_, line 83), runs the engine and releases mutex_
\* when it leaves, by return or by exception.  The engine inserts the keys of
\* add and add_batch one after the other; search and size read index_ as it is
\* when they leave.

\* The operations that reach the engine.
Operation == {"add", "add_batch", "search", "size", "save", "load"}

\* A lock_guard that does not wait for the holder.
LockableAlways(holder) == TRUE

\* A lock_guard that does not wait for a holder that reads.
LockableBesideReader(holder) ==
    IF holder = 0 THEN TRUE ELSE nd_op[holder] \in {"search", "size"}

\* One mutex for all shards: the constructor returns once no thread holds the
\* mutex_ of any shard.
LockableWhenAllFree(holder) == \A s \in Shard : nd_mutex_[s] = 0

\* std::lock_guard<std::mutex> lock(mutex_), lines 69, 76, 84, 90, 99, 105:
\* the constructor returns once no thread holds mutex_.
Lockable(holder) == holder = 0

NodeIdle ==
    [nd_mutex_ |-> [s \in Shard |-> 0],
     nd_pc |-> [c \in Client |-> "idle"],
     nd_op |-> [c \in Client |-> "none"],
     nd_shard |-> [c \in Client |-> 0],
     nd_keys |-> [c \in Client |-> << >>],
     nd_done |-> [c \in Client |-> 0],
     nd_written |-> [s \in Shard |-> {}]]

\* The arguments of an operation: one key for add, keys 0 .. count - 1 for
\* add_batch (the examples number their vectors from 0), none for the others.
Arguments(op) ==
    IF op = "add" THEN {<<key>> : key \in BatchKey}
    ELSE IF op = "add_batch" THEN {[j \in 1..count |-> j - 1] : count \in 1..MaxCount}
    ELSE {<< >>}

\* A client calls operation op of shard s with the keys given; search counts
\* the query first (line 83).
node_call(c, s, op, keys) ==
    /\ nd_pc[c] = "idle"
    /\ op = "search" => Sum(query_count_, Shard) < MaxQueries
    /\ query_count_' = IF op = "search"
                       THEN [query_count_ EXCEPT ![s] = FetchAdd(@)]
                       ELSE query_count_
    /\ ext' = [ext EXCEPT !.nd.nd_pc[c] = "lock",
                          !.nd.nd_op[c] = op,
                          !.nd.nd_shard[c] = s,
                          !.nd.nd_keys[c] = keys]
    /\ UNCHANGED <<total_queries_, target_shards, se_pc, se_i, se_task, se_get,
                   se_collected, qc_before, se_result>>
    /\ UNCHANGED <<fdVars, cpVars, batchVars, mergeVars>>

\* The lock_guard of the operation takes mutex_; the engine call begins.
node_lock(c) ==
    /\ nd_pc[c] = "lock"
    /\ Lockable(nd_mutex_[nd_shard[c]])
    /\ ext' = [ext EXCEPT !.nd.nd_mutex_[nd_shard[c]] = c,
                          !.nd.nd_pc[c] = "engine"]
    /\ UNCHANGED <<fdVars, cpVars, batchVars, searchVars, mergeVars>>

\* index_.add, lines 70 and 77: the engine inserts the next key of the call.
node_insert(c) ==
    /\ nd_pc[c] = "engine"
    /\ nd_done[c] < Len(nd_keys[c])
    /\ shards_' = [shards_ EXCEPT ![nd_shard[c]] = @ \cup {nd_keys[c][nd_done[c] + 1]}]
    /\ ext' = [ext EXCEPT !.nd.nd_done[c] = @ + 1]
    /\ UNCHANGED <<ab_keys, groups, ab_pc, ab_task, ab_next, ab_result>>
    /\ UNCHANGED <<fdVars, cpVars, searchVars, mergeVars>>

\* What search and size of shard s find in index_.
Observed(s) == shards_[s]

\* The engine call ends, having inserted all keys of the call or, refusing
\* them, none; the operation leaves and its lock_guard releases mutex_.
node_return(c) ==
    /\ nd_pc[c] = "engine"
    /\ nd_done[c] \in {0, Len(nd_keys[c])}
    /\ ext' = [ext EXCEPT !.nd.nd_mutex_[nd_shard[c]] = 0,
                          !.nd.nd_pc[c] = "idle",
                          !.nd.nd_op[c] = "none",
                          !.nd.nd_shard[c] = 0,
                          !.nd.nd_keys[c] = << >>,
                          !.nd.nd_done[c] = 0,
                          !.nd.nd_written[nd_shard[c]] =
                              IF nd_done[c] = Len(nd_keys[c])
                              THEN @ \cup {nd_keys[c][j] : j \in DOMAIN nd_keys[c]}
                              ELSE @]
    /\ UNCHANGED <<fdVars, cpVars, batchVars, searchVars, mergeVars>>

\* The lock protocol of the six operations on all shards; the keys are left out.
NodeNext ==
    \/ \E c \in Client, s \in Shard, op \in Operation : node_call(c, s, op, << >>)
    \/ \E c \in Client : node_lock(c)
    \/ \E c \in Client : node_return(c)

\* The operations that write or read index_ without replacing it.
VisibleOperation == {"add", "add_batch", "search", "size"}

\* The ShardNode the clients of VisibleNext share.
SharedShard == 0

\* Clients writing and reading one ShardNode, lines 68-92.
VisibleNext ==
    \/ \E c \in Client, op \in VisibleOperation :
          \E keys \in Arguments(op) : node_call(c, SharedShard, op, keys)
    \/ \E c \in Client : node_lock(c)
    \/ \E c \in Client : node_insert(c)
    \/ \E c \in Client : node_return(c)

\* No balancer, no strategy instance of its own and no DistributedIndex is
\* constructed.
ExtIdle == [lb |-> <<"absent">>, rt |-> <<"absent">>, pa |-> <<"absent">>,
            nd |-> <<"absent">>, se |-> <<"absent">>, cl |-> <<"absent">>,
            lk |-> <<"absent">>]

\* A DistributedIndex is constructed: its shards are not called directly, and
\* nothing is saved or loaded.
ExtDI == [ExtIdle EXCEPT !.pa = PersistIdle, !.nd = NodeIdle, !.se = [se_n_probe |-> 0]]

\* ======================================================= specifications ==

\* The failure detector alone; the manager's fields stay at fixed values.
InitFD == FDInit /\ CPInit /\ max_checkpoints_ = 0 /\ BatchInit /\ SearchInit /\ MergeIdle
            /\ ext = ExtIdle
SpecFD == InitFD /\ [][FDNext]_vars

\* The checkpoint manager with its shard alone; the detector's fields stay at
\* fixed values.
InitCP == FDInit /\ CPInit /\ heartbeat_timeout_ = 0 /\ BatchInit /\ SearchInit /\ MergeIdle
            /\ ext = ExtIdle
SpecCP == InitCP /\ [][CPNext]_vars

\* The same, with the checkpoint thread scheduled: a step of checkpoint_loop
\* that is possible is eventually taken (the while test and the end of the
\* sleep wait for no other thread).
SpecCPLive ==
    /\ SpecCP
    /\ WF_vars(checkpoint_loop_test)
    /\ WF_vars(checkpoint_loop_wake)

\* The locks of a CheckpointManager and its shard, with the manager's callers,
\* checkpoint_loop and the clients of the shard.
InitLock == FDInit /\ CPInit /\ heartbeat_timeout_ = 0 /\ max_checkpoints_ = 0
              /\ BatchInit /\ SearchInit /\ MergeIdle
              /\ ext = [ExtIdle EXCEPT !.lk = LockIdle]
SpecLock == InitLock /\ [][LockNext]_vars

\* The same under fair scheduling: a step that waits for no lock is taken if
\* it stays possible, and a thread waiting at a lock_guard takes the mutex if
\* the mutex is free again and again.
SpecLockLive ==
    /\ SpecLock
    /\ \A w \in Caller :
          /\ SF_vars(manager_lock(w))
          /\ SF_vars(manager_shard_lock(w))
          /\ WF_vars(restore_latest_test(w))
          /\ WF_vars(manager_shard_return(w))
          /\ WF_vars(manager_leave(w))
    /\ \A c \in Client :
          /\ SF_vars(client_lock(c))
          /\ WF_vars(client_return(c))

\* The write path of a DistributedIndex alone.
InitDI == FDInit /\ CPInit /\ heartbeat_timeout_ = 0 /\ max_checkpoints_ = 0
            /\ BatchInit /\ SearchInit /\ MergeIdle /\ ext = ExtDI
SpecBatch == InitDI /\ [][BatchNext]_vars
SpecJoin == InitDI /\ [][JoinNext]_vars

\* The fan-out of DistributedIndex::search alone.
SpecSearch == InitDI /\ [][SearchNext]_vars

\* The merge of DistributedIndex::search alone, on any collected results.
InitMerge == FDInit /\ CPInit /\ heartbeat_timeout_ = 0 /\ max_checkpoints_ = 0
               /\ BatchInit /\ SearchInit /\ MergeInit /\ ext = ExtDI
SpecMerge == InitMerge /\ [][MergeNext]_vars

\* The request bookkeeping of an AdaptiveLoadBalancer alone, called by the
\* client threads.
InitLB == FDInit /\ CPInit /\ heartbeat_timeout_ = 0 /\ max_checkpoints_ = 0
            /\ BatchInit /\ SearchInit /\ MergeIdle
            /\ ext = [ExtIdle EXCEPT !.lb = LBInit]
SpecLB == InitLB /\ [][LBNext]_vars
SpecLBApi == InitLB /\ [][LBApiNext]_vars

\* The request bookkeeping of a ProductionCluster; its detector is followed in
\* SpecFD.
InitCluster == FDInit /\ CPInit /\ heartbeat_timeout_ = 0 /\ max_checkpoints_ = 0
                 /\ BatchInit /\ SearchInit /\ MergeIdle
                 /\ ext = [ExtIdle EXCEPT !.lb = LBInit, !.cl = ClusterIdle]
SpecCluster == InitCluster /\ [][ClusterNext]_vars

\* select_shard alone, on any statistics.
InitSelect == FDInit /\ CPInit /\ heartbeat_timeout_ = 0 /\ max_checkpoints_ = 0
                /\ BatchInit /\ SearchInit /\ MergeIdle
                /\ ext \in {[ExtIdle EXCEPT !.lb = balancer] : balancer \in SelectInit}
SpecSelect == InitSelect /\ [][SelectNext]_vars

\* A sharding strategy of any class alone, called directly.
InitRoute == FDInit /\ CPInit /\ heartbeat_timeout_ = 0 /\ max_checkpoints_ = 0
               /\ BatchInit /\ SearchInit /\ MergeIdle
               /\ ext \in {[ExtIdle EXCEPT !.rt = constructed] :
                              constructed \in RouteInit}
SpecRoute == InitRoute /\ [][RouteNext]_vars

\* A DistributedIndex that is filled, saved and loaded.
SpecPersist == InitDI /\ [][PersistNext]_vars

\* The shards alone, called by the client threads.
SpecNode == InitDI /\ [][NodeNext]_vars
SpecVisible == InitDI /\ [][VisibleNext]_vars

\* main(): example_02_failure_detection returns, which destroys its detector,
\* and example_03_checkpoint_recovery constructs its manager.
example_03_begins ==
    /\ DestroyDetector
    /\ max_checkpoints_' \in 0..MaxRetain
    /\ UNCHANGED <<index_, files, checkpoints_, cp_running_, cp_joinable, cp_mutex_,
                   cp_pc, cp_stop_pc, cp_stage, cp_id, created, cp_result, cp_before,
                   shard_, cp_saved>>
    /\ UNCHANGED diVars

\* main(): the detector of example_02 lives and dies before the manager of
\* example_03 is built and used.
Init == InitFD
Next ==
    \/ FDCalls
    \/ example_03_begins
    \/ ~FdExists /\ CPNext
Spec == Init /\ [][Next]_vars
\* ================================================= FailureDetector claims ==

\* C1: a registered node that stays silent while a callback is installed is
\* confirmed failed by the third detection tick that finds it timed out: from
\* then on on_failure_ has been invoked for it exactly once.
C1_ConfirmedAfterThreeMissedTicks ==
    \A a \in DOMAIN nodes_ : missed[a] >= FailureThreshold => fired[a] = 1

\* C2: on_failure_ has been invoked for an address only if at least 3 ticks
\* found the node timed out since its last heartbeat or registration and its
\* failure_count is at least 3; after a single missed tick it was not invoked.
C2_CallbackOnlyAfterThreeMisses ==
    \A a \in Address :
        /\ fired[a] > 0 => /\ a \in DOMAIN nodes_
                           /\ nodes_[a].failure_count >= FailureThreshold
                           /\ missed[a] >= FailureThreshold
        /\ missed[a] = 1 => fired[a] = 0

\* A node has missed exactly one tick with a callback installed.
C2_Witness ==
    \E a \in DOMAIN nodes_ :
        on_failure_ /\ missed[a] = 1 /\ ~nodes_[a].is_alive /\ nodes_[a].failure_count = 1

\* C3: between two heartbeats / registrations of an address, on_failure_ is
\* invoked for it at most once, however many ticks find it timed out.
C3_CallbackAtMostOncePerEpisode == \A a \in Address : fired[a] <= 1

\* A node stayed timed out over at least four ticks of one episode.
C3_Witness ==
    \E a \in DOMAIN nodes_ : on_failure_ /\ missed[a] >= FailureThreshold + 1

\* C4: right after heartbeat(a) on a registered address the node is alive with
\* failure_count 0 and last_heartbeat = now, whatever it was before; right
\* after add_node(a) the node is registered, alive, with failure_count 0.
C4_HeartbeatResets ==
    /\ (fd_call[1] = "heartbeat" /\ fd_call[3] # << >>) =>
            /\ fd_call[2] \in DOMAIN nodes_
            /\ nodes_[fd_call[2]] =
                 [last_heartbeat |-> now, is_alive |-> TRUE, failure_count |-> 0]
    /\ fd_call[1] = "add_node" =>
            /\ fd_call[2] \in DOMAIN nodes_
            /\ nodes_[fd_call[2]].is_alive
            /\ nodes_[fd_call[2]].failure_count = 0

\* heartbeat has just returned for a node that a tick had marked not alive.
C4_Witness ==
    /\ fd_call[1] = "heartbeat"
    /\ fd_call[3] # << >>
    /\ ~fd_call[3][1].is_alive
    /\ fd_call[3][1].failure_count > 0
    /\ fd_call[3][1].last_heartbeat < now

\* C5: heartbeat on an unregistered address changes nothing in nodes_: no
\* entry is created and every registered node keeps its status.
C5_HeartbeatUnregisteredNoOp ==
    [][\A a \in Address : fd_call' = <<"heartbeat", a, << >> >> => nodes_' = nodes_]_vars

\* heartbeat has just returned for an unregistered address while another
\* address is registered.
C5_Witness ==
    /\ fd_call[1] = "heartbeat"
    /\ fd_call[3] = << >>
    /\ fd_call[2] \notin DOMAIN nodes_
    /\ DOMAIN nodes_ # {}

\* ===================================================== shutdown claims ==

\* No thread is owned and no stop() is under way: stop() has returned and
\* start() was not called since (or start() was never called).
FdStopped == ~fd_joinable /\ fd_stop_pc # "join"
CpStopped == ~cp_joinable /\ cp_stop_pc # "join"

\* C6: once stop() has returned, the detector thread performs no tick and
\* invokes no callback, and the checkpoint thread neither enters
\* create_checkpoint nor creates a checkpoint.
C6_NoActivityAfterStop ==
    [][/\ FdStopped => /\ ~(fd_pc = "sleep" /\ fd_pc' = "test")
                       /\ \A a \in Address : fired'[a] <= fired[a]
       /\ CpStopped => /\ ~(cp_mutex_ # "loop" /\ cp_mutex_' = "loop")
                       /\ ~(cp_mutex_ = "loop" /\ created' # created)]_vars

\* Both stop() calls have returned after joining a thread that had run, the
\* checkpoint thread having created a checkpoint.
C6_Witness ==
    /\ FdStopped /\ fd_pc = "done"
    /\ CpStopped /\ cp_pc = "done"
    /\ cp_result = <<"create", "loop", "ok">>

\* =============================================== CheckpointManager claims ==

\* The ids of the retained records.
RetainedIds == {checkpoints_[i].id : i \in 1..Len(checkpoints_)}

\* The last n elements of a sequence.
LastN(sq, n) == SubSeq(sq, Len(sq) - n + 1, Len(sq))

\* C7: the ids of the created checkpoints start at 1 and strictly increase.
C7_IdsStrictlyIncreasing ==
    /\ created # << >> => created[1].id = 1
    /\ \A i \in 1..(Len(created) - 1) : created[i].id < created[i + 1].id

\* C8: while no create_checkpoint call is in progress, at most
\* max_checkpoints_ records are retained.
C8_RetentionBound ==
    cp_mutex_ = "free" => Len(checkpoints_) <= max_checkpoints_

\* More checkpoints were created than may be retained, a restore has been
\* made, and no call is in progress.
C8_Witness ==
    /\ cp_mutex_ = "free"
    /\ max_checkpoints_ >= 1
    /\ Len(created) > max_checkpoints_
    /\ cp_result[1] = "restore" /\ cp_result[2]

\* C9: the retained records are the min(n, max_checkpoints_) most recently
\* created ones in creation order, and when create_checkpoint has returned a
\* record the files on storage are exactly the intact files of the retained
\* records.
C9_FifoEviction ==
    /\ checkpoints_ = LastN(created, Min(Len(created), max_checkpoints_))
    /\ (cp_result[1] = "create" /\ cp_result[3] = "ok") =>
            /\ DOMAIN files = RetainedIds
            /\ \A i \in DOMAIN files : files[i].intact

\* max_checkpoints_ = 2: creations 1, 2, 3 leave records 2, 3 and their files.
C9_Witness ==
    /\ max_checkpoints_ = 2
    /\ cp_result[1] = "create" /\ cp_result[3] = "ok"
    /\ Len(created) = 3
    /\ Len(checkpoints_) = 2
    /\ checkpoints_[1].id = 2 /\ checkpoints_[2].id = 3
    /\ DOMAIN files = {2, 3}

\* C10: when create_checkpoint has thrown because the save failed, checkpoints_
\* is what the call found, every file the call found still exists, and the
\* files of the retained records are unchanged.
C10_FailedCreateChangesNothing ==
    (cp_result[1] = "create" /\ cp_result[3] = "error") =>
        /\ checkpoints_ = cp_before.checkpoints
        /\ DOMAIN cp_before.files \subseteq DOMAIN files
        /\ \A i \in RetainedIds : i \in DOMAIN files /\ files[i] = cp_before.files[i]

\* create_checkpoint has thrown on a manager whose retained list was full, the
\* failed save having left a file behind.
C10_Witness ==
    /\ cp_result[1] = "create" /\ cp_result[3] = "error"
    /\ max_checkpoints_ >= 1
    /\ Len(checkpoints_) = max_checkpoints_
    /\ DOMAIN files # RetainedIds

\* A step of restore_latest().
RestoreLatestStep ==
    restore_latest_empty \/ restore_latest_loads \/ restore_latest_load_fails

\* C11: restore_latest leaves checkpoints_ unchanged; with checkpoints_ empty it
\* returns false, hands no file to load and leaves the engine unchanged;
\* otherwise the file handed to load is that of the retained record with the
\* highest id, which is the last one created, and when it returns true the
\* engine holds that file's content.
C11_RestoreLoadsLatest ==
    [][RestoreLatestStep =>
        /\ checkpoints_' = checkpoints_
        /\ checkpoints_ = << >> => cp_result' = <<"restore", FALSE, 0>> /\ index_' = index_
        /\ checkpoints_ # << >> =>
              /\ cp_result'[3] \in RetainedIds
              /\ \A i \in RetainedIds : i <= cp_result'[3]
              /\ cp_result'[3] = created[Len(created)].id
              /\ cp_result'[2] => /\ cp_result'[3] \in DOMAIN files
                                  /\ index_' = files[cp_result'[3]].keys]_vars

\* restore_latest has returned true with two records retained whose files
\* differ: the engine holds the content of the newer file.
C11_Witness ==
    /\ cp_result[1] = "restore" /\ cp_result[2]
    /\ Len(checkpoints_) = 2
    /\ cp_result[3] = checkpoints_[2].id
    /\ index_ = files[checkpoints_[2].id].keys
    /\ files[checkpoints_[1].id].keys # index_

\* C12 as stated: after create_checkpoint has succeeded, restore_latest applied
\* to the new empty shard leaves it holding the engine state that the last
\* successful create_checkpoint saved, with the same size.
C12_RoundTripAlways ==
    [][(RestoreLatestStep /\ shard_ = "new_shard" /\ index_ = {} /\ created # << >>) =>
        /\ index_' = cp_saved
        /\ ShardSize(index_') = ShardSize(cp_saved)]_vars

\* C12: after create_checkpoint has succeeded, a restore_latest that is applied
\* to the new empty shard and returns true leaves it holding the engine state
\* that the last successful create_checkpoint saved, with the same size.
C12_RoundTripOnSuccess ==
    [][(RestoreLatestStep /\ shard_ = "new_shard" /\ index_ = {} /\ created # << >>
            /\ cp_result'[2]) =>
        /\ index_' = cp_saved
        /\ ShardSize(index_') = ShardSize(cp_saved)]_vars

\* The new shard holds the non-empty state saved by the second of two
\* checkpoints, restore_latest having returned true.
C12_Witness ==
    /\ shard_ = "new_shard"
    /\ cp_result[1] = "restore" /\ cp_result[2]
    /\ Len(created) >= 2
    /\ cp_saved # {}
    /\ index_ = cp_saved

\* C13: when create_checkpoint has returned a record, its num_vectors is the
\* number of vectors in the snapshot that the call saved.
C13_CountMatchesSnapshot ==
    (cp_result[1] = "create" /\ cp_result[3] = "ok") =>
        created[Len(created)].num_vectors = ShardSize(cp_saved)

\* C14: a create_checkpoint that throws inside checkpoint_loop sends the thread
\* back to the while test; from there, unless running_ is cleared, the thread
\* eventually reaches its next create_checkpoint call; and a call of the thread
\* whose save has succeeded ends by returning one more checkpoint, the thread
\* going back to the while test.
C14_LoopSurvivesFailure ==
    /\ [][(cp_mutex_ = "loop" /\ cp_result' = <<"create", "loop", "error">>) =>
            cp_pc' = "test"]_vars
    /\ (cp_result = <<"create", "loop", "error">> /\ cp_pc = "test")
            ~> (cp_pc = "create" \/ ~cp_running_)
    /\ [][(cp_mutex_ = "loop" /\ cp_stage = "size" /\ cp_stage' # "size") =>
            /\ Len(created') = Len(created) + 1
            /\ cp_result' = <<"create", "loop", "ok">>
            /\ cp_pc' = "test"]_vars

\* The last call was a create_checkpoint of the thread that threw, the manager
\* is still running and the thread is at its next create_checkpoint call.
C14_Witness ==
    /\ cp_result = <<"create", "loop", "error">>
    /\ cp_running_
    /\ cp_pc = "create"

\* ================================================ DistributedIndex claims ==

\* C15: add_batch returns true exactly when the engine accepted the group of
\* every shard it dispatched to, the task of a shard returns true exactly when
\* the engine accepted its group, and add returns true exactly when the engine
\* accepted the vector.
C15_FailureIsReported ==
    /\ ab_result[1] = "add_batch" =>
            /\ ab_result[2] <=> \A s \in Dispatched(ab_result[3]) : ab_result[3][s][2]
            /\ \A s \in Dispatched(ab_result[3]) : ab_result[3][s][3] <=> ab_result[3][s][2]
    /\ ab_result[1] = "add" => (ab_result[2] <=> ab_result[3])

\* The elements of a sequence.
Elements(sq) == {sq[i] : i \in 1..Len(sq)}

\* C16: when a search call has left, it has raised the query counter of every
\* target shard by exactly 1 and that of no other shard.
C16_OneSearchPerTarget ==
    se_result[1] = "search" =>
        \A s \in Shard : se_result[6][s] = IF s \in Elements(se_result[3]) THEN 1 ELSE 0

\* The keys of the entries of a sequence.
KeysOf(sq) == {sq[i].key : i \in 1..Len(sq)}

\* No entry is followed by one of lower distance.
Ascending(sq) == \A i, j \in 1..Len(sq) : i < j => sq[i].distance <= sq[j].distance

\* C17: the returned list has no two entries of the same key, is in ascending
\* order of distance and consists of the min(k, number of keys) lowest-distance
\* entries of the collected entries deduplicated by key.
C17_MergeShape ==
    mg_pc = "returned" =>
        /\ \A i, j \in 1..Len(all_results) : i < j => all_results[i].key # all_results[j].key
        /\ Ascending(all_results)
        /\ Len(all_results) = Min(mg_k, Cardinality(KeysOf(mg_collected)))
        /\ Elements(mg_unique) \subseteq Elements(mg_collected)
        /\ KeysOf(mg_unique) = KeysOf(mg_collected)
        /\ Len(mg_unique) = Cardinality(KeysOf(mg_collected))
        /\ Elements(all_results) \subseteq Elements(mg_unique)
        /\ \A e \in Elements(mg_unique) \ Elements(all_results) :
              \A r \in Elements(all_results) : r.distance <= e.distance

\* C18: when the merge has returned without running beyond the end, every
\* returned entry carries the lowest distance that was collected for its key.
C18_ClosestDuplicateKept ==
    (mg_pc = "returned" /\ ~mg_overrun) =>
        \A r \in Elements(all_results) :
            \A e \in Elements(mg_collected) : e.key = r.key => r.distance <= e.distance

\* C19: when the collected entries have fewer than k keys, the merge returns
\* exactly the deduplicated entries in ascending order of distance, and
\* partial_sort was not handed a range beyond the end.
C19_ShortUnionReturnedWhole ==
    (mg_pc = "returned" /\ Cardinality(KeysOf(mg_collected)) < mg_k) =>
        /\ ~mg_overrun
        /\ all_results \in Rearrangements(mg_unique)
        /\ Ascending(all_results)

\* C20: when a search call has left, every task having searched its own target
\* shard, one of these searches having thrown and another not, it has
\* returned, with the results of exactly the searches that did not throw.
C20_FailedShardIsDropped ==
    (/\ se_result[1] = "search"
     /\ \A i \in 1..Len(se_result[3]) : se_result[4][i][2] = se_result[3][i]
     /\ \E i, j \in 1..Len(se_result[3]) : se_result[4][i][3] /\ ~se_result[4][j][3]) =>
        /\ se_result[2] = "returned"
        /\ Len(se_result[5]) = Cardinality({i \in 1..Len(se_result[3]) : ~se_result[4][i][3]})
\* ============================================ AdaptiveLoadBalancer claims ==

\* The statistics of the shards.
Statistics == <<active_requests, total_requests, avg_latency_ms, error_count>>

\* C21: when select_shard returns, the shard it returns has the least value of
\* active_requests + avg_latency_ms / 10 among all shards, every shard with a
\* lower index has a greater value, the values it compared are the statistics
\* of the shards, and no step of select_shard changes a statistic.
C21_SelectsLowestMinimum ==
    /\ [](lb_result[1] = "select_shard" =>
            LET seen == lb_result[3]
                best == lb_result[2] + 1
                TenTimesScore(i) == 10 * seen[i][1] * Scale + seen[i][2]
            IN  /\ seen = [i \in 1..NumShards |->
                              <<active_requests[i - 1], avg_latency_ms[i - 1]>>]
                /\ \A i \in 1..NumShards : TenTimesScore(best) <= TenTimesScore(i)
                /\ \A i \in 1..(best - 1) : TenTimesScore(best) < TenTimesScore(i))
    /\ [][(\E c \in Client : lb_pc[c] = "scan" \/ lb_pc'[c] = "scan")
            => UNCHANGED Statistics]_vars

\* select_shard has returned a shard other than the first: the first has as
\* many active requests and a higher average latency.
C21_Witness ==
    /\ lb_result[1] = "select_shard"
    /\ lb_result[2] # 0
    /\ active_requests[0] = active_requests[lb_result[2]]
    /\ avg_latency_ms[0] > avg_latency_ms[lb_result[2]]

\* Every record_request_start and record_request_end made so far has returned.
AllReturned == \A c \in Client : lb_pc[c] \in {"idle", "started"}

\* C22: once every record_request_start / record_request_end call has returned,
\* on every shard active_requests is the number of starts minus the number of
\* ends, total_requests is the number of starts and error_count is the number
\* of ends with success = false; and a step of a call made with one shard
\* leaves the three counters of every other shard as they were.
C22_CountersExact ==
    /\ [](AllReturned =>
            \A s \in Shard : /\ active_requests[s] = lb_starts[s] - lb_ends[s]
                             /\ total_requests[s] = lb_starts[s]
                             /\ error_count[s] = lb_failed[s])
    /\ [][\A c \in Client : lb_pc'[c] # lb_pc[c] =>
            LET called == IF lb_pc[c] = "idle" THEN lb_shard'[c] ELSE lb_shard[c]
            IN  \A s \in Shard \ {called} :
                    /\ active_requests'[s] = active_requests[s]
                    /\ total_requests'[s] = total_requests[s]
                    /\ error_count'[s] = error_count[s]]_vars

\* Two requests on one shard have ended, one of them without success, and
\* every call has returned.
C22_Witness ==
    /\ \A c \in Client : lb_pc[c] = "idle"
    /\ \E s \in Shard : lb_ends[s] >= 2 /\ lb_failed[s] >= 1

\* The average that the latencies of sq leave when line 450 is applied to them
\* one after the other, starting from the initial 0.0.
RECURSIVE SerialAverage(_)
SerialAverage(sq) ==
    IF sq = << >> THEN 0
    ELSE Ema(SerialAverage(SubSeq(sq, 1, Len(sq) - 1)), sq[Len(sq)])

\* C23: whenever no record_request_end is between its load and its store on a
\* shard, avg_latency_ms of the shard is the value that new = 0.9 * old +
\* 0.1 * latency gives when applied to every latency observed on the shard,
\* in one of their serial orders.
C23_NoObservationLost ==
    \A s \in Shard :
        (\A c \in Client : lb_pc[c] \in {"end_load", "end_store"} => lb_shard[c] # s)
            => \E order \in Rearrangements(lb_observed[s]) :
                    avg_latency_ms[s] = SerialAverage(order)

\* ================================================ ShardingStrategy claims ==

\* The key lies in the interval [min_key, max_key) of the range.
InRange(range, key) == key >= range.min_key /\ key < range.max_key

\* C24: the intervals of a RangeSharding with N shards and M total keys are
\* one per shard, start at 0, end at M and each begins where the one before
\* ends, so that every key of [0, M) lies in exactly one of them and no other
\* key lies in any; shard_id sends a key below M to the shard whose interval
\* holds it and a key of M or above to the last shard.
C24_RangeComplete ==
    strategy_ = "range" =>
        /\ Len(ranges_) = num_shards_
        /\ ranges_[1].min_key = 0
        /\ ranges_[num_shards_].max_key = total_keys
        /\ \A j \in 1..num_shards_ :
                ranges_[j].min_key <= ranges_[j].max_key /\ ranges_[j].shard_id = j - 1
        /\ \A j \in 1..(num_shards_ - 1) : ranges_[j].max_key = ranges_[j + 1].min_key
        /\ \A key \in RouteKey :
                Cardinality({j \in 1..num_shards_ : InRange(ranges_[j], key)})
                    = IF key < total_keys THEN 1 ELSE 0
        /\ rt_result[1] = "shard_id" =>
                IF rt_result[2] < total_keys
                THEN InRange(ranges_[rt_result[3] + 1], rt_result[2])
                ELSE rt_result[3] = num_shards_ - 1

\* total_keys is not a multiple of the number of shards, and shard_id was
\* called with a key of the remainder that the last shard takes.
C24_Witness ==
    /\ strategy_ = "range"
    /\ num_shards_ > 1
    /\ total_keys % num_shards_ # 0
    /\ rt_result[1] = "shard_id"
    /\ rt_result[2] >= num_shards_ * (total_keys \div num_shards_)
    /\ rt_result[2] < total_keys

\* C25: on a HashSharding and on a RangeSharding every shard_id call returns
\* an index below the number of shards, and two calls with the same key return
\* the same index, whatever calls were made between them.
C25_RoutingDeterministic ==
    strategy_ \in {"hash", "range"} =>
        \A i, j \in DOMAIN rt_history :
            /\ rt_history[i][2] \in 0..(num_shards_ - 1)
            /\ rt_history[i][1] = rt_history[j][1] => rt_history[i][2] = rt_history[j][2]

\* shard_id was called twice with one key and, in between, with another key
\* that belongs to another shard.
C25_Witness ==
    /\ strategy_ \in {"hash", "range"}
    /\ \E i, j \in DOMAIN rt_history :
          /\ i + 1 < j
          /\ rt_history[i][1] = rt_history[j][1]
          /\ rt_history[i + 1][2] # rt_history[i][2]

\* C26: the list target_shards returns is not empty, holds no index twice and
\* holds only indices below the number of shards, for every strategy class
\* and every n_probe.
C26_TargetShardsContract ==
    rt_result[1] = "target_shards" =>
        /\ Len(rt_result[3]) >= 1
        /\ \A i, j \in DOMAIN rt_result[3] : i # j => rt_result[3][i] # rt_result[3][j]
        /\ \A i \in DOMAIN rt_result[3] : rt_result[3][i] < num_shards_

\* C27: on a RoundRobinSharding no two shard_id calls obtain the same counter
\* value, every call returns an index below the number of shards N, and after
\* N * m calls every shard was returned m times.
C27_RoundRobinFair ==
    strategy_ = "round_robin" =>
        /\ \A i, j \in DOMAIN rt_history : i # j => rt_history[i][3] # rt_history[j][3]
        /\ \A i \in DOMAIN rt_history : rt_history[i][2] \in 0..(num_shards_ - 1)
        /\ Len(rt_history) % num_shards_ = 0 =>
                \A s \in 0..(num_shards_ - 1) :
                    Cardinality({i \in DOMAIN rt_history : rt_history[i][2] = s})
                        = Len(rt_history) \div num_shards_

\* Two rounds over several shards were made.
C27_Witness ==
    /\ strategy_ = "round_robin"
    /\ num_shards_ > 1
    /\ Len(rt_history) = 2 * num_shards_

\* ========================================= DistributedIndex claims, continued ==

\* The keys of the list that HashSharding::shard_id sends to shard s, in the
\* order of the list.
RECURSIVE KeysFor(_, _)
KeysFor(keys, s) ==
    IF keys = << >> THEN << >>
    ELSE IF Head(keys) % NumShards = s
         THEN <<Head(keys)>> \o KeysFor(Tail(keys), s)
         ELSE KeysFor(Tail(keys), s)

\* C28: when add_batch returns, the group of every shard was the keys of the
\* input that shard_id sends to that shard, each as often as the input holds
\* it and in input order, a task was created for exactly the shards with a
\* non-empty group, and every input key is held by the shard shard_id sends
\* it to.
C28_BatchPartitioned ==
    ab_result[1] = "add_batch" =>
        LET tasks == ab_result[3]
            keys == ab_result[4]
            grouped == ab_result[5]
        IN  /\ \A s \in Shard : grouped[s] = KeysFor(keys, s)
            /\ \A s \in Shard : tasks[s] # <<"none">> <=> grouped[s] # << >>
            /\ \A j \in DOMAIN keys : keys[j] \in shards_[keys[j] % NumShards]

\* C29: save_all and load_all visit the shards in ascending order from the
\* first; no shard is visited after one whose save / load failed; the call
\* returns true exactly when every shard was visited and none failed, and
\* false right after the first failure; and when it returns, every shard it
\* saved has the file with the keys written and every shard it loaded holds
\* the keys loaded.
C29_FailFast ==
    /\ \A j \in DOMAIN pa_attempted : pa_attempted[j][1] = j - 1
    /\ \A j \in 1..(Len(pa_attempted) - 1) : pa_attempted[j][2]
    /\ pa_result[1] # "none" =>
          /\ pa_result[3] = pa_attempted
          /\ pa_result[2] <=> /\ Len(pa_attempted) = NumShards
                              /\ \A j \in DOMAIN pa_attempted : pa_attempted[j][2]
          /\ ~pa_result[2] => ~pa_attempted[Len(pa_attempted)][2]
          /\ \A j \in DOMAIN pa_attempted : pa_attempted[j][2] =>
                IF pa_result[1] = "save_all"
                THEN disk[j - 1] = FileOf(pa_attempted[j][3])
                ELSE pa_attempted[j][3] \subseteq shards_[j - 1]

\* load_all has returned false with a shard left unvisited, and the first
\* shard holds two keys.
C29_Witness ==
    /\ pa_result[1] = "load_all"
    /\ ~pa_result[2]
    /\ Len(pa_attempted) < NumShards
    /\ Cardinality(shards_[0]) > 1

\* ======================================================= ShardNode claims ==

\* The clients that are in the engine call of an operation of shard s.
InEngine(s) == {c \in Client : nd_pc[c] = "engine" /\ nd_shard[c] = s}

\* C30: at no time are two threads in the engine call of an operation (add,
\* add_batch, search, size, save or load) of the same ShardNode.
C30_OneEngineCallPerShard == \A s \in Shard : Cardinality(InEngine(s)) <= 1

\* A client is in the engine call of one operation of a shard while another
\* client waits at the lock_guard of a different operation of that shard.
C30_Witness ==
    \E c, d \in Client :
        /\ nd_pc[c] = "engine"
        /\ nd_pc[d] = "lock"
        /\ nd_shard[c] = nd_shard[d]
        /\ nd_op[c] # nd_op[d]

\* =========================================== ShardNode claims, continued ==

\* C31: a client waiting at the lock_guard of a shard in whose engine no
\* thread is can take the lock at once, whatever locks are held on other
\* shards; so operations on different shards are in their engine calls together.
C31_ShardIndependence ==
    \A c \in Client :
        (nd_pc[c] = "lock" /\ InEngine(nd_shard[c]) = {}) => ENABLED node_lock(c)

\* Every shard has a client inside the engine call of its add_batch at the
\* same time.
C31_Witness ==
    \A s \in Shard : \E c \in InEngine(s) : nd_op[c] = "add_batch"

\* The clients that are inside search or size of shard s.
Reading(s) == {c \in InEngine(s) : nd_op[c] \in {"search", "size"}}

\* The clients whose add or add_batch of shard s has inserted some of its keys
\* and not yet all.
PartlyWritten(s) == {c \in InEngine(s) : 0 < nd_done[c] /\ nd_done[c] < Len(nd_keys[c])}

\* C32: at any time index_ of a shard holds every key of the add and add_batch
\* calls that have returned, so a search or size that starts later finds them;
\* and while a search or size is inside the engine, no add_batch of the shard
\* has inserted a part of its keys only.
C32_Visibility ==
    \A s \in Shard :
        /\ nd_written[s] \subseteq Observed(s)
        /\ Reading(s) # {} => PartlyWritten(s) = {}

\* A search reads the shard after an add_batch of two keys has returned, while
\* another add_batch waits for the lock.
C32_Witness ==
    \E c, d \in Client :
        /\ c \in Reading(SharedShard)
        /\ nd_op[c] = "search"
        /\ Cardinality(nd_written[SharedShard]) >= 2
        /\ nd_pc[d] = "lock"
        /\ nd_op[d] = "add_batch"

\* ==================================== CheckpointManager claims, continued ==

\* The callers of the manager that hold mutex_ of the shard.
HoldsShard(w) == lk_shard_mutex_ = <<"caller", w>>

\* C39: a thread takes mutex_ of the manager only while it holds no mutex_ of
\* the shard, and takes mutex_ of the shard inside the manager only while it
\* holds mutex_ of the manager; between save and size the caller does not hold
\* mutex_ of the shard; whenever a call has begun some step of a call is
\* possible; and every call of create_checkpoint, restore_latest, add or
\* search that has begun is left again.
C39_NoDeadlock ==
    /\ [](\A w \in Caller :
             /\ lk_pc[w] \in {"lock_manager", "lock_save", "lock_size", "lock_load"}
                  => ~HoldsShard(w)
             /\ HoldsShard(w) => lk_mutex_ = w)
    /\ []((\E w \in Caller : lk_pc[w] # "idle") \/ (\E c \in Client : lk_client_pc[c] # "idle")
             => ENABLED LockProgress)
    /\ \A w \in Caller : (lk_pc[w] # "idle") ~> (lk_pc[w] = "idle")
    /\ \A c \in Client : (lk_client_pc[c] # "idle") ~> (lk_client_pc[c] = "idle")

\* create_checkpoint of checkpoint_loop is between save and size while a
\* client holds the lock of the shard, another thread waits for the lock of
\* the manager and another client waits for the lock of the shard.
C39_Witness ==
    /\ lk_pc["loop"] = "lock_size"
    /\ lk_pc["manual"] = "lock_manager"
    /\ lk_op["manual"] = "restore_latest"
    /\ \E c, d \in Client :
          /\ lk_client_pc[c] = "engine"
          /\ lk_client_pc[d] = "lock"

\* ====================================== FailureDetector claims, continued ==

\* C37: every registered node has failure_count 0 or 1, and a node that is not
\* alive has failure_count 1; a detection tick leaves every node that is not
\* alive as it is, so a silent node is changed by the first timed-out tick only.
C37_FailureCountAtMostOne ==
    /\ [](\A a \in DOMAIN nodes_ :
             /\ nodes_[a].failure_count \in {0, 1}
             /\ ~nodes_[a].is_alive => nodes_[a].failure_count = 1)
    /\ [][(fd_pc = "sleep" /\ fd_pc' = "test") =>
             \A a \in DOMAIN nodes_ : ~nodes_[a].is_alive => nodes_'[a] = nodes_[a]]_vars

\* A node that is not alive has been found timed out by a second tick and
\* still has failure_count 1.
C37_Witness ==
    \E a \in DOMAIN nodes_ :
        /\ ~nodes_[a].is_alive
        /\ nodes_[a].failure_count = 1
        /\ missed[a] >= 2

\* ====================================== DistributedIndex claims, continued 2 ==

\* The shards a search call has resolved as its targets.
Consulted == {target_shards[j] : j \in DOMAIN target_shards}

C35_AddFrame ==
    [][\A key \in BatchKey :
          di_add(key) =>
              /\ \A s \in Shard \ {shard_id(key)} :
                    /\ shards_'[s] = shards_[s]
                    /\ Cardinality(shards_'[s]) = Cardinality(shards_[s])
              /\ shards_'[shard_id(key)] \subseteq shards_[shard_id(key)] \cup {key}
              /\ ab_result'[3] => key \in shards_'[shard_id(key)]]_vars

\* An add has put its key into one shard while another shard is still empty.
C35_Witness ==
    /\ ab_result[1] = "add"
    /\ ab_result[3]
    /\ \E s \in Shard : shards_[s] # {}
    /\ \E s \in Shard : shards_[s] = {}

\* C36: once add_batch has returned, every group it dispatched has run to its
\* end, and the keys of every group the engine took are in the shard of the
\* group, also when the engine rejected another group of the same call.
C36_NoRollback ==
    ab_result[1] = "add_batch" =>
        \A s \in Dispatched(ab_result[3]) :
            /\ ab_result[3][s][1] = "done"
            /\ ab_result[3][s][2] =>
                  {ab_result[5][s][j] : j \in DOMAIN ab_result[5][s]} \subseteq shards_[s]

\* add_batch has returned after the engine rejected the group of one shard and
\* took the group of another, whose keys are in that shard.
C36_Witness ==
    /\ ab_result[1] = "add_batch"
    /\ \E s, r \in Dispatched(ab_result[3]) :
          /\ ~ab_result[3][s][2]
          /\ ab_result[3][r][2]
          /\ ab_result[5][r] # << >>
          /\ {ab_result[5][r][j] : j \in DOMAIN ab_result[5][r]} \subseteq shards_[r]

\* C33: while add_batch or search waits for its futures, every future it has
\* passed belongs to a finished task; the step that leaves add_batch finds every
\* dispatched task finished and hands back what all of them did; the step that
\* leaves search, by return or by exception, finds every dispatched task
\* finished, and a search that returns has appended the results of every
\* target shard.
C33_FanOutJoin ==
    /\ [](ab_pc = "get" =>
             \A s \in Shard : s < ab_next => ab_task[s][1] \in {"none", "done"})
    /\ [](se_pc = "collect" =>
             \A i \in 1..Len(target_shards) : i < se_get => se_task[i][1] = "done")
    /\ [][(ab_pc = "get" /\ ab_pc' = "idle") =>
             /\ \A s \in Dispatched(ab_task) : ab_task[s][1] = "done"
             /\ ab_result'[3] = ab_task]_vars
    /\ [][(se_pc \in {"collect", "unwind"} /\ se_pc' = "idle") =>
             /\ \A i \in 1..Len(target_shards) : se_task[i][1] = "done"
             /\ se_result'[2] = "returned" => Len(se_collected) = Len(target_shards)]_vars

\* An add_batch that dispatched a task to every shard has returned, and after
\* it a search of every shard has returned.
C33_Witness ==
    /\ ab_result[1] = "add_batch"
    /\ Dispatched(ab_result[3]) = Shard
    /\ se_result[1] = "search"
    /\ se_result[2] = "returned"
    /\ Len(se_result[3]) = NumShards

\* ================================= AdaptiveLoadBalancer claims, continued ==

\* The threads whose shard search on s has passed line 441 of its
\* record_request_start and not reached line 446 of its record_request_end: the
\* search is about to run, runs, or was left by an exception.
BetweenStartAndEnd(s) ==
    {c \in Client : lb_shard[c] = s /\ lb_pc[c] \in {"start_total", "started", "thrown"}}

C40_ActiveNeverWraps ==
    \A s \in Shard :
        /\ active_requests[s] >= 0
        /\ UnsignedLessEq(active_requests[s], total_requests[s])
====
